---- MODULE Spec2Model ----
(***************************************************************************)
(* litecli: the background completion refresher (completion_refresher.py, *)
(* the parts of sqlcompleter.py and main.py it drives) and the special-    *)
(* command registry and dispatcher (packages/special/main.py).             *)
(***************************************************************************)
EXTENDS Integers, Sequences, FiniteSets, TLC

\* ---------------------------------------------------------------- bounds
\* statements the interactive session handles after the start-up refresh
MaxStatements == 1
\* special commands registered into COMMANDS in the dispatcher specification
MaxCommands == 1
\* length of the text handed to execute()
MaxLen == 3
\* entries the registry may hold before a further registration is tried, where
\* the help listing is checked
MaxListed == 2
\* input lines the read loop handles
MaxIterations == 3
\* sub-statements in the text given to SQLExecute.run
MaxComponents == 2

\* ---------------------------------------------------------------- data
None == "None"
MainThread == "MainThread"
WorkerThread == "completion_refresh"
Memory == ":memory:"

\* database files the session can be connected to
Databases == {"a.db", "b.db", Memory}

\* SQLCompleter.keywords / SQLCompleter.functions (class attributes), cut
\* down to one representative each
keywords == <<"SELECT">>
functions == <<"ABS">>

SeqToSet(s) == {s[k] : k \in DOMAIN s}

\* set(schema): the characters of a database name, as set.update(str) adds them
Chars(s) ==
    CASE s = "a.db" -> {"a", ".", "d", "b"}
      [] s = "b.db" -> {"b", ".", "d"}
      [] s = Memory -> {":", "m", "e", "o", "r", "y"}
      [] OTHER -> {}

\* str.upper() on the identifiers the model uses
Upper(s) ==
    CASE s = "t" -> "T" [] s = "u" -> "U" [] s = "x" -> "X" [] s = "y" -> "Y"
      [] s = "a" -> "A"
      [] s = "f" -> "F" [] s = "abs" -> "ABS" [] s = "select" -> "SELECT"
      [] OTHER -> s

\* name_pattern ^[_a-zA-Z][_a-zA-Z0-9\$]*$ on the identifiers the model uses
name_pattern_match(s) == s \in {"t", "u", "x", "y", "a", "f", "abs", "select"}

\* the quote character escape_name wraps a name in (the backtick, which a
\* string literal here cannot hold)
Backtick == "'"

escape_name(c, name) ==
    IF name # "" /\ (~name_pattern_match(name)
                     \/ Upper(name) \in c.reserved_words
                     \/ Upper(name) \in SeqToSet(functions))
    THEN Backtick \o name \o Backtick
    ELSE name

escaped_names(c, names) == [k \in DOMAIN names |-> escape_name(c, names[k])]

EmptyMap == <<>>

\* d[k] = v on a dict modelled as a function
DictSet(d, k, v) == (k :> v) @@ d

reset_completions(c) ==
    [c EXCEPT !.databases = <<>>,
              !.dbname = "",
              !.dbmetadata = [tables |-> EmptyMap, views |-> EmptyMap, functions |-> EmptyMap],
              !.all_completions = SeqToSet(keywords) \cup SeqToSet(functions)]

\* SQLCompleter(**completer_options); id is the identity of the new object
SQLCompleter(id) ==
    reset_completions(
        [id |-> id,
         reserved_words |-> SeqToSet(keywords),
         special_commands |-> <<>>,
         databases |-> <<>>,
         dbname |-> "",
         dbmetadata |-> [tables |-> EmptyMap, views |-> EmptyMap, functions |-> EmptyMap],
         all_completions |-> {}])

extend_special_commands(c, special_commands) ==
    [c EXCEPT !.special_commands = @ \o special_commands]

extend_database_names(c, databases) ==
    [c EXCEPT !.databases = @ \o databases]

extend_schemata(c, schema) ==
    IF schema = None THEN c
    ELSE [c EXCEPT !.dbmetadata = [kind \in DOMAIN @ |-> DictSet(@[kind], schema, EmptyMap)],
                   !.all_completions = @ \cup Chars(schema)]

set_dbname(c, dbname) == [c EXCEPT !.dbname = dbname]

RECURSIVE RelationsLoop(_, _, _, _)
RelationsLoop(c, data, kind, k) ==
    IF k > Len(data) THEN c
    ELSE LET relname == data[k]
             metadata == c.dbmetadata[kind]
             c1 == IF c.dbname \in DOMAIN metadata
                   THEN [c EXCEPT !.dbmetadata[kind][c.dbname] = DictSet(@, relname[1], <<"*">>)]
                   ELSE c   \* KeyError: logged
             c2 == [c1 EXCEPT !.all_completions = @ \cup {relname[1]}]
         IN RelationsLoop(c2, data, kind, k + 1)

extend_relations(c, data, kind) ==
    RelationsLoop(c, [k \in DOMAIN data |-> escaped_names(c, data[k])], kind, 1)

KeyError == "KeyError"

\* metadata[self.dbname][relname] is there to append to
HasRelation(c, kind, relname) ==
    /\ c.dbname \in DOMAIN c.dbmetadata[kind]
    /\ relname \in DOMAIN c.dbmetadata[kind][c.dbname]

\* the loop ends at the first KeyError, which extend_columns lets through
RECURSIVE ColumnsLoop(_, _, _, _)
ColumnsLoop(c, column_data, kind, k) ==
    IF k > Len(column_data) THEN c
    ELSE LET relname == column_data[k][1]
             column == column_data[k][2]
             c1 == [c EXCEPT !.dbmetadata[kind][c.dbname][relname] = Append(@, column),
                             !.all_completions = @ \cup {column}]
         IN IF ~HasRelation(c, kind, relname) THEN c
            ELSE ColumnsLoop(c1, column_data, kind, k + 1)

\* the completer as extend_columns leaves it, also when it raises
extend_columns(c, column_data, kind) ==
    ColumnsLoop(c, [k \in DOMAIN column_data |-> escaped_names(c, column_data[k])], kind, 1)

\* what extend_columns raises: KeyError or None
extend_columns_raises(c, column_data, kind) ==
    IF \E k \in DOMAIN column_data :
           ~HasRelation(c, kind, escape_name(c, column_data[k][1]))
    THEN KeyError ELSE None

\* scoped_tbls holds (schema, table, alias) tuples
RECURSIVE populate_scoped_cols(_, _)
populate_scoped_cols(c, scoped_tbls) ==
    IF scoped_tbls = <<>> THEN <<>>
    ELSE LET tbl == Head(scoped_tbls)
             schema == IF tbl[1] = None \/ tbl[1] = "" THEN c.dbname ELSE tbl[1]
             relname == tbl[2]
             escaped_relname == escape_name(c, tbl[2])
             Has(kind, name) == /\ schema \in DOMAIN c.dbmetadata[kind]
                                /\ name \in DOMAIN c.dbmetadata[kind][schema]
             found == IF Has("tables", relname) THEN c.dbmetadata.tables[schema][relname]
                      ELSE IF Has("tables", escaped_relname)
                      THEN c.dbmetadata.tables[schema][escaped_relname]
                      ELSE IF Has("views", relname) THEN c.dbmetadata.views[schema][relname]
                      ELSE <<>>
         IN found \o populate_scoped_cols(c, Tail(scoped_tbls))

RECURSIVE FunctionsLoop(_, _, _)
FunctionsLoop(c, func_data, k) ==
    IF k > Len(func_data) THEN c
    ELSE LET func == func_data[k]
             c1 == [c EXCEPT !.dbmetadata.functions[c.dbname] = DictSet(@, func[1], None),
                             !.all_completions = @ \cup {func[1]}]
         IN IF c.dbname \notin DOMAIN c.dbmetadata.functions THEN c   \* KeyError
            ELSE FunctionsLoop(c1, func_data, k + 1)

\* src is the generator's outcome: [raises |-> BOOLEAN, rows |-> Seq]
extend_functions(c, src) ==
    LET func_data == IF src.raises THEN <<>>   \* except Exception: logged, []
                     ELSE [k \in DOMAIN src.rows |-> escaped_names(c, src.rows[k])]
    IN FunctionsLoop(c, func_data, 1)

\* what extend_functions raises: KeyError or None
extend_functions_raises(c, src) ==
    IF ~src.raises /\ src.rows # <<>> /\ c.dbname \notin DOMAIN c.dbmetadata.functions
    THEN KeyError ELSE None

\* ------------------------------------------ special commands: pure part
\* A text is a sequence of one-character strings.
NO_QUERY == 0
PARSED_QUERY == 1
RAW_QUERY == 2

Whitespace == {" ", "\t"}

\* str.lower(), character by character
LowerChar(ch) ==
    CASE ch = "Q" -> "q" [] ch = "U" -> "u" [] ch = "S" -> "s" [] ch = "E" -> "e"
      [] ch = "A" -> "a" [] ch = "B" -> "b"
      [] OTHER -> ch

lower(s) == [k \in DOMAIN s |-> LowerChar(s[k])]

RECURSIVE LStrip(_, _)
LStrip(s, chars) ==
    IF s # <<>> /\ Head(s) \in chars THEN LStrip(Tail(s), chars) ELSE s

RECURSIVE RStrip(_, _)
RStrip(s, chars) ==
    IF s # <<>> /\ s[Len(s)] \in chars THEN RStrip(SubSeq(s, 1, Len(s) - 1), chars) ELSE s

\* str.strip(chars)
strip(s, chars) == RStrip(LStrip(s, chars), chars)

\* position of the first occurrence of ch in s, 0 when there is none
RECURSIVE Find(_, _, _)
Find(s, ch, k) ==
    IF k > Len(s) THEN 0 ELSE IF s[k] = ch THEN k ELSE Find(s, ch, k + 1)

\* str.partition(sep) for a one-character separator: <<head, sep, tail>>
partition(s, sep) ==
    LET k == Find(s, sep, 1)
    IN IF k = 0 THEN <<s, <<>>, <<>>>>
       ELSE <<SubSeq(s, 1, k - 1), <<sep>>, SubSeq(s, k + 1, Len(s))>>

Contains(s, ch) == \E k \in DOMAIN s : s[k] = ch

SUCCINCT == "succinct"
NORMAL == "normal"
VERBOSE == "verbose"

parse_special_command_succinct_first(sql) ==
    LET parts == partition(sql, " ")
        command == parts[1]
        arg == parts[3]
        verbosity == IF Contains(command, "-") THEN SUCCINCT
                     ELSE IF Contains(command, "+") THEN VERBOSE
                     ELSE NORMAL
    IN <<strip(strip(command, Whitespace), {"+", "-"}), verbosity, strip(arg, Whitespace)>>

\* returns <<command, verbosity, arg>>
parse_special_command(sql) ==
    LET parts == partition(sql, " ")
        command == parts[1]
        arg == parts[3]
        verbosity == IF Contains(command, "+") THEN VERBOSE
                     ELSE IF Contains(command, "-") THEN SUCCINCT
                     ELSE NORMAL
    IN <<strip(strip(command, Whitespace), {"+", "-"}), verbosity, strip(arg, Whitespace)>>

SpecialCommand(handler, command, shortcut, description, arg_type, hidden, case_sensitive) ==
    [handler |-> handler, command |-> command, shortcut |-> shortcut,
     description |-> description, arg_type |-> arg_type, hidden |-> hidden,
     case_sensitive |-> case_sensitive]

\* COMMANDS is a dict: a sequence of [key, value] in insertion order
Keys(commands) == [k \in DOMAIN commands |-> commands[k].key]

HasKey(commands, key) == \E k \in DOMAIN commands : commands[k].key = key

Lookup(commands, key) ==
    commands[CHOOSE k \in DOMAIN commands : commands[k].key = key].value

\* commands[key] = value
DictPut(commands, key, value) ==
    IF HasKey(commands, key)
    THEN [k \in DOMAIN commands |->
             IF commands[k].key = key THEN [key |-> key, value |-> value] ELSE commands[k]]
    ELSE Append(commands, [key |-> key, value |-> value])

RECURSIVE RegisterAliases(_, _, _, _)
RegisterAliases(commands, reg, aliases, k) ==
    IF k > Len(aliases) THEN commands
    ELSE LET cmd == IF ~reg.case_sensitive THEN lower(aliases[k]) ELSE aliases[k]
         IN RegisterAliases(
                DictPut(commands, cmd,
                        SpecialCommand(reg.handler, reg.command, reg.shortcut, reg.description,
                                       reg.arg_type, TRUE, reg.case_sensitive)),
                reg, aliases, k + 1)

\* reg holds the arguments handler, command, shortcut, description, arg_type,
\* hidden, case_sensitive, aliases
register_special_command(commands, reg) ==
    LET cmd == IF ~reg.case_sensitive THEN lower(reg.command) ELSE reg.command
        c1 == DictPut(commands, cmd,
                      SpecialCommand(reg.handler, reg.command, reg.shortcut, reg.description,
                                     reg.arg_type, reg.hidden, reg.case_sensitive))
    IN RegisterAliases(c1, reg, reg.aliases, 1)

CommandNotFound == "CommandNotFound"

\* one handler call: given names the keyword arguments passed; an argument
\* that is not passed is recorded as None, the empty text or FALSE
Call(handler, given, cur, arg, verbose, query) ==
    [handler |-> handler, given |-> given, cur |-> cur, arg |-> arg,
     verbose |-> verbose, query |-> query]

\* what an execute() call did: parsed holds command, verbosity and arg as
\* line 130 assigned them
Outcome(sql, parsed, raised, calls) ==
    [sql |-> sql, parsed |-> parsed, raised |-> raised, calls |-> calls]

find_command_any_case(commands, command) ==
    IF HasKey(commands, command)
    THEN [found |-> TRUE, special_cmd |-> Lookup(commands, command)]
    ELSE [found |-> TRUE, special_cmd |-> Lookup(commands, lower(command))]

\* the entry execute() dispatches to, lines 135-140: [found, special_cmd]
find_command(commands, command) ==
    IF HasKey(commands, command)
    THEN [found |-> TRUE, special_cmd |-> Lookup(commands, command)]
    ELSE LET special_cmd == Lookup(commands, lower(command))
         IN [found |-> ~special_cmd.case_sensitive, special_cmd |-> special_cmd]

dispatch_raw_as_parsed(special_cmd, cur, sql, verbosity, arg) ==
    IF special_cmd.arg_type = NO_QUERY
    THEN <<Call(special_cmd.handler, {}, None, <<>>, FALSE, <<>>)>>
    ELSE <<Call(special_cmd.handler, {"cur", "arg", "verbose"}, cur, arg,
                verbosity = VERBOSE, <<>>)>>

\* lines 142-152
dispatch(special_cmd, cur, sql, verbosity, arg) ==
    IF special_cmd.arg_type = NO_QUERY
    THEN <<Call(special_cmd.handler, {}, None, <<>>, FALSE, <<>>)>>
    ELSE IF special_cmd.arg_type = PARSED_QUERY
    THEN <<Call(special_cmd.handler, {"cur", "arg", "verbose"}, cur, arg,
                verbosity = VERBOSE, <<>>)>>
    ELSE IF special_cmd.arg_type = RAW_QUERY
    THEN <<Call(special_cmd.handler, {"cur", "query"}, cur, <<>>, FALSE, sql)>>
    ELSE <<>>

execute(commands, cur, sql) ==
    LET parsed == parse_special_command(sql)
        command == parsed[1]
        verbosity == parsed[2]
        arg == parsed[3]
    IN IF ~HasKey(commands, command) /\ ~HasKey(commands, lower(command))
       THEN Outcome(sql, parsed, CommandNotFound, <<>>)
       ELSE LET f == find_command(commands, command)
            IN IF ~f.found THEN Outcome(sql, parsed, CommandNotFound, <<>>)
               ELSE LET calls == dispatch(f.special_cmd, cur, sql, verbosity, arg)
                    IN Outcome(sql, parsed, IF calls = <<>> THEN CommandNotFound ELSE None, calls)

\* the registrations made when packages/special/main.py is imported
Reg(handler, command, arg_type, hidden, case_sensitive, aliases) ==
    [handler |-> handler, command |-> command, shortcut |-> <<>>, description |-> <<>>,
     arg_type |-> arg_type, hidden |-> hidden, case_sensitive |-> case_sensitive,
     aliases |-> aliases]

StartupCommands ==
    register_special_command(
        register_special_command(<<>>,
            Reg("show_help", <<"h", "e", "l", "p">>, NO_QUERY, FALSE, FALSE,
                << <<"\\", "?">>, <<"?">> >>)),
        Reg("quit", <<"q", "u", "i", "t">>, NO_QUERY, FALSE, FALSE, <<>>))

\* ------------------------------------------------- the refresh coordinator
VARIABLES
    sqlexecute_dbname,  \* LiteCli.sqlexecute.dbname, the session's own SQLExecute
    schema,             \* per database file, which relations it holds now
    completer,          \* LiteCli.completer, the live SQLCompleter
    completer_lock,     \* LiteCli._completer_lock: None or the holding thread
    completer_thread,   \* CompletionRefresher._completer_thread: 0 or a run
    restart_refresh,    \* CompletionRefresher._restart_refresh (Event)
    runs,               \* every invocation of _bg_refresh, with its locals
    fg,                 \* the foreground thread: position, pending calls, the
                        \* status refresh() last returned, the dbname of the
                        \* executor it was last called with, the statement handled
    n_stmt,             \* statements handled so far
    COMMANDS,           \* packages.special.main.COMMANDS, in insertion order
    sql,                \* the text execute() is given
    last_exec,          \* the outcome of the last special.execute() call
    help,               \* the rows the last show_help() call returned
    loop,               \* run_cli(): where the read loop is, and how it ended
    sqlrun,             \* SQLExecute: conn, and the run() call being consumed
    special,            \* packages.special: the favorite queries, the output
                        \* redirections, and what the last command did
    index,              \* a SQLCompleter of its own, and what the last call
                        \* on it raised
    asked               \* the last call of a function of the completer that
                        \* changes nothing: its arguments and what it returned

vars == <<sqlexecute_dbname, schema, completer, completer_lock, completer_thread,
          restart_refresh, runs, fg, n_stmt, COMMANDS, sql, last_exec, help, loop,
          sqlrun, special, index, asked>>

refresh_vars == <<sqlexecute_dbname, schema, completer, completer_lock, completer_thread,
                  restart_refresh, runs, fg, n_stmt>>

cmd_vars == <<COMMANDS, sql, last_exec>>

help_vars == <<help>>

\* the variables of the components that neither the refresh coordinator nor
\* the dispatcher touches, and their values before those components are used
loop_vars == <<loop>>

run_vars == <<sqlrun>>

special_vars == <<special>>

index_vars == <<index>>

asked_vars == <<asked>>

other_vars == <<help_vars, loop_vars, run_vars, special_vars, index_vars, asked_vars>>

\* what the help listing, the read loop and SQLExecute.run leave alone
help_frame == <<refresh_vars, loop_vars, run_vars, special_vars, index_vars, asked_vars>>
loop_frame == <<refresh_vars, cmd_vars, help_vars, run_vars, special_vars, index_vars, asked_vars>>
run_frame == <<refresh_vars, cmd_vars, help_vars, loop_vars, special_vars, index_vars, asked_vars>>
special_frame == <<refresh_vars, cmd_vars, help_vars, loop_vars, run_vars, index_vars, asked_vars>>
index_frame == <<refresh_vars, cmd_vars, help_vars, loop_vars, run_vars, special_vars, asked_vars>>
asked_frame == <<refresh_vars, cmd_vars, help_vars, loop_vars, run_vars, special_vars, index_vars>>

LoopIdle ==
    loop = [pc |-> "prompt", text |-> None, iterations |-> 0, message |-> None,
            history |-> <<>>, error |-> None, at |-> None,
            successful |-> FALSE, mutating |-> FALSE, executed |-> <<>>, refreshes |-> 0,
            destroy |-> "None"]

\* no run() call is being consumed
NoRun(conn) ==
    [pc |-> "idle", conn |-> conn, statement |-> <<>>, first |-> <<>>, components |-> <<>>,
     k |-> 0, trace |-> <<>>]

\* what one handler call did: the error it raised, the result tuples
\* (title, rows, headers, status) it returned, and the statements it ran
HandlerResult(raised, results, executed) ==
    [raised |-> raised, results |-> results, executed |-> executed]

\* packages.special when it has been imported and nothing was run
SpecialIdle ==
    special = [favorites |-> <<>>, once_file |-> None, written_to_once_file |-> FALSE,
               tee_file |-> None, pipe_once_process |-> None, text |-> <<>>,
               result |-> HandlerResult(None, <<>>, <<>>),
               lines |-> <<>>, once_written |-> <<>>]

\* index.completer is set by the specification that uses it
IndexIdle == index = [completer |-> None, raised |-> None]

\* nothing has been asked
AskedIdle == asked = [args |-> <<>>, returned |-> <<>>]

OtherIdle ==
    /\ help = <<>>
    /\ LoopIdle
    /\ sqlrun = NoRun(TRUE)
    /\ SpecialIdle
    /\ IndexIdle
    /\ AskedIdle

\* CompletionRefresher.refreshers, in registration order
refreshers == <<"databases", "schemata", "tables", "functions", "special_commands">>

StatusStarted == <<None, None, None, "Auto-completion refresh started in the background.">>
StatusRestarted == <<None, None, None, "Auto-completion refresh restarted.">>

\* refresh() has not returned since the statement began
NoStatus == <<>>

\* in place of a status, when the exception of a refresher came out of refresh()
StatusRaised == <<None, None, None, "raised">>

on_completions_refreshed == "_on_completions_refreshed"
observer == "observer"

\* the callbacks argument of refresh(): one callable, or a list of callables
CallbackArgs ==
    {[callable |-> TRUE, f |-> on_completions_refreshed, list |-> <<>>],
     [callable |-> FALSE, f |-> None, list |-> <<on_completions_refreshed, observer>>]}

\* lines 78-81: a single function is pushed into a list
callbacks_list(callbacks) ==
    IF callbacks.callable THEN <<callbacks.f>> ELSE callbacks.list

\* rows of table_columns_query for the two contents a database file can have
TableColumns(v) == IF v = 0 THEN << <<"t", "x">> >> ELSE << <<"u", "y">> >>

\* the locals of a _bg_refresh invocation that has not assigned them yet;
\* pass (the steps run since the loop last started over, with what each read)
\* and called (the callbacks invoked so far, with the completer handed over)
\* record what the invocation did
NoLocals(thread, pc, callbacks) ==
    [thread |-> thread, pc |-> pc, i |-> 0, callbacks |-> callbacks,
     completer |-> SQLCompleter(0), is_memory |-> FALSE,
     executor |-> None, executor_dbname |-> None, pass |-> <<>>, called |-> <<>>]

Finished(r) == runs[r].pc \in {"done", "raised"}

\* threading.Thread.is_alive()
is_alive(r) == runs[r].thread = WorkerThread /\ ~Finished(r)

is_refreshing_inverted == completer_thread # 0 /\ ~is_alive(completer_thread)

is_refreshing == completer_thread # 0 /\ is_alive(completer_thread)

AliveWorkers == {r \in DOMAIN runs : is_alive(r)}

Op(op, reset) == [op |-> op, reset |-> reset]

Init ==
    /\ sqlexecute_dbname = "a.db"
    /\ schema = [d \in Databases |-> 0]
    /\ completer = SQLCompleter(1)
    /\ completer_lock = None
    /\ completer_thread = 0
    /\ restart_refresh = FALSE
    /\ runs = <<>>
    \* run_cli() starts with refresh_completions() (line 375) and then
    \* makes the prompt session (lines 592-625)
    /\ fg = [pc |-> "idle", todo |-> <<Op("refresh", FALSE), Op("prompt_session", FALSE)>>,
             status |-> NoStatus,
             refresh_dbname |-> None, statement |-> None]
    /\ n_stmt = 0
    /\ COMMANDS = StartupCommands
    /\ sql = <<>>
    /\ last_exec = Outcome(<<>>, <<>>, None, <<>>)
    /\ OtherIdle

\* ---- the refresher steps (completion_refresher.py, lines 114-140)
\* A source outcome is [raises, rows]: the generator raises, or yields rows.
Src(raises, rows) == [raises |-> raises, rows |-> rows]

\* A step outcome is [raised, completer].
Ok(c) == [raised |-> FALSE, completer |-> c]
Raised(c) == [raised |-> TRUE, completer |-> c]

refresh_databases(c, src) ==
    IF src.raises THEN Raised(c) ELSE Ok(extend_database_names(c, src.rows))

refresh_schemata(c, dbname) == Ok(set_dbname(extend_schemata(c, dbname), dbname))

refresh_tables(c, src) ==
    IF src.raises THEN Raised(c)    \* list(executor.table_columns()) raises
    ELSE Ok(extend_columns(extend_relations(c, src.rows, "tables"), src.rows, "tables"))

refresh_functions(c, src) == Ok(extend_functions(c, src))

refresh_special(c, src) == Ok(extend_special_commands(c, src.rows))

refresher(name, c, dbname, src) ==
    CASE name = "databases" -> refresh_databases(c, src)
      [] name = "schemata" -> refresh_schemata(c, dbname)
      [] name = "tables" -> refresh_tables(c, src)
      [] name = "functions" -> refresh_functions(c, src)
      [] name = "special_commands" -> refresh_special(c, src)

\* executor.dbname as a step reads it: the session's SQLExecute follows the
\* session, the worker's own one keeps the name it was opened with
ExecutorDbname(run) ==
    IF run.executor = "session" THEN sqlexecute_dbname ELSE run.executor_dbname

\* what the executor's connection sees: a second connection to :memory: is a
\* new, empty database
ExecutorRows(run) ==
    IF run.executor = "own" /\ run.executor_dbname = Memory THEN <<>>
    ELSE TableColumns(schema[ExecutorDbname(run)])

\* the outcomes the source of a step can have
Sources(name, run) ==
    CASE name = "databases" -> {Src(TRUE, <<>>), Src(FALSE, <<"main">>)}
      [] name = "schemata" -> {Src(FALSE, <<>>)}
      [] name = "tables" -> {Src(TRUE, <<>>), Src(FALSE, ExecutorRows(run))}
      [] name = "functions" ->
            \* functions_query names a table SQLite does not have: it raises,
            \* unless a database attached to the connection provides it
            IF run.executor = "own" THEN {Src(TRUE, <<>>)}
            ELSE {Src(TRUE, <<>>), Src(FALSE, << <<"f">> >>)}
      [] name = "special_commands" -> {Src(FALSE, Keys(COMMANDS))}

\* ---- the foreground thread (main.py)
PopTodo(status) == [fg EXCEPT !.pc = "idle", !.todo = Tail(@), !.status = status]

CanPrompt == fg.pc = "idle" /\ fg.todo = <<>> /\ n_stmt < MaxStatements

\* "rehash": the handler is refresh_completions()
Rehash ==
    /\ CanPrompt
    /\ fg' = [fg EXCEPT !.todo = <<Op("refresh", FALSE)>>, !.status = NoStatus,
                      !.statement = "rehash"]
    /\ n_stmt' = n_stmt + 1
    /\ UNCHANGED <<sqlexecute_dbname, schema, completer, completer_lock, completer_thread,
                   restart_refresh, runs>>

\* ".open d": change_db connects and calls refresh_completions()
OpenDb ==
    /\ CanPrompt
    /\ \E d \in Databases : sqlexecute_dbname' = d
    /\ fg' = [fg EXCEPT !.todo = <<Op("refresh", FALSE)>>, !.status = NoStatus,
                      !.statement = ".open"]
    /\ n_stmt' = n_stmt + 1
    /\ UNCHANGED <<schema, completer, completer_lock, completer_thread,
                   restart_refresh, runs>>

\* "use d": change_db, then need_completion_refresh and need_completion_reset
\* hold for the statement: refresh_completions(reset=True)
UseDb ==
    /\ CanPrompt
    /\ \E d \in Databases : sqlexecute_dbname' = d
    /\ fg' = [fg EXCEPT !.todo = <<Op("refresh", FALSE), Op("refresh", TRUE)>>,
                      !.status = NoStatus, !.statement = "use"]
    /\ n_stmt' = n_stmt + 1
    /\ UNCHANGED <<schema, completer, completer_lock, completer_thread,
                   restart_refresh, runs>>

\* a create/alter/drop statement: it changes the relations of the connected
\* database, then need_completion_refresh holds
Ddl ==
    /\ CanPrompt
    /\ schema' = [schema EXCEPT ![sqlexecute_dbname] = 1 - @]
    /\ fg' = [fg EXCEPT !.todo = <<Op("refresh", FALSE)>>, !.status = NoStatus,
                      !.statement = "ddl"]
    /\ n_stmt' = n_stmt + 1
    /\ UNCHANGED <<sqlexecute_dbname, completer, completer_lock, completer_thread,
                   restart_refresh, runs>>

\* refresh_completions, lines 767-769
ResetCompletions ==
    /\ fg.pc = "idle" /\ fg.todo # <<>> /\ Head(fg.todo).op = "refresh" /\ Head(fg.todo).reset
    /\ completer_lock = None
    /\ completer' = reset_completions(completer)
    /\ fg' = [fg EXCEPT !.todo = <<Op("refresh", FALSE)>> \o Tail(@)]
    /\ UNCHANGED <<sqlexecute_dbname, schema, completer_lock, completer_thread,
                   restart_refresh, runs, n_stmt>>

AtRefresh ==
    fg.pc = "idle" /\ fg.todo # <<>> /\ Head(fg.todo).op = "refresh" /\ ~Head(fg.todo).reset

\* refresh(), line 39 when is_refreshing() is true
RefreshWhileRefreshing ==
    /\ AtRefresh
    /\ is_refreshing
    /\ fg' = [fg EXCEPT !.pc = "set_flag", !.refresh_dbname = sqlexecute_dbname]
    /\ UNCHANGED <<sqlexecute_dbname, schema, completer, completer_lock, completer_thread,
                   restart_refresh, runs, n_stmt>>

\* refresh(), lines 40-41
RefreshRestart ==
    /\ fg.pc = "set_flag"
    /\ restart_refresh' = TRUE
    /\ fg' = PopTodo(StatusRestarted)
    /\ UNCHANGED <<sqlexecute_dbname, schema, completer, completer_lock, completer_thread,
                   runs, n_stmt>>

\* refresh(), lines 43-46: _bg_refresh is called on the foreground thread
RefreshSync ==
    /\ AtRefresh
    /\ ~is_refreshing
    /\ sqlexecute_dbname = Memory
    /\ \E callbacks \in CallbackArgs :
          runs' = Append(runs, NoLocals(MainThread, "start", callbacks))
    /\ fg' = [fg EXCEPT !.pc = "sync", !.refresh_dbname = sqlexecute_dbname]
    /\ UNCHANGED <<sqlexecute_dbname, schema, completer, completer_lock, completer_thread,
                   restart_refresh, n_stmt>>

\* refresh(), lines 48-56: a worker thread is created and started
RefreshStartThread ==
    /\ AtRefresh
    /\ ~is_refreshing
    /\ sqlexecute_dbname # Memory
    /\ \E callbacks \in CallbackArgs :
          runs' = Append(runs, NoLocals(WorkerThread, "start", callbacks))
    /\ completer_thread' = Len(runs) + 1
    /\ fg' = [PopTodo(StatusStarted) EXCEPT !.refresh_dbname = sqlexecute_dbname]
    /\ UNCHANGED <<sqlexecute_dbname, schema, completer, completer_lock,
                   restart_refresh, n_stmt>>

\* the end of a with self._completer_lock block: the holder lets the lock go
release_never(holder) == holder

release(holder) == None

\* run_cli, lines 592-625: the prompt session is made with the lock held
PromptSessionEnter ==
    /\ fg.pc = "idle" /\ fg.todo # <<>> /\ Head(fg.todo).op = "prompt_session"
    /\ completer_lock = None
    /\ completer_lock' = MainThread
    /\ fg' = [fg EXCEPT !.pc = "prompt_session"]
    /\ UNCHANGED <<sqlexecute_dbname, schema, completer, completer_thread,
                   restart_refresh, runs, n_stmt>>

PromptSessionLeave ==
    /\ fg.pc = "prompt_session"
    /\ completer_lock' = release(completer_lock)
    /\ fg' = [fg EXCEPT !.pc = "idle", !.todo = Tail(@)]
    /\ UNCHANGED <<sqlexecute_dbname, schema, completer, completer_thread,
                   restart_refresh, runs, n_stmt>>

\* get_completions, lines 792-794: the lock is held for the whole call
GetCompletionsEnter ==
    /\ fg.pc = "idle" /\ fg.todo = <<>>
    /\ completer_lock = None
    /\ completer_lock' = MainThread
    /\ fg' = [fg EXCEPT !.pc = "get_completions"]
    /\ UNCHANGED <<sqlexecute_dbname, schema, completer, completer_thread,
                   restart_refresh, runs, n_stmt>>

GetCompletionsLeave ==
    /\ fg.pc = "get_completions"
    /\ completer_lock' = release(completer_lock)
    /\ fg' = [fg EXCEPT !.pc = "idle"]
    /\ UNCHANGED <<sqlexecute_dbname, schema, completer, completer_thread,
                   restart_refresh, runs, n_stmt>>

\* ---- _bg_refresh (completion_refresher.py, lines 61-99)
Running(r) == r \in DOMAIN runs /\ ~Finished(r)

\* the foreground thread after a synchronous _bg_refresh returned or raised
FgAfter(r, raised) ==
    IF runs[r].thread # MainThread THEN fg
    ELSE IF raised THEN [fg EXCEPT !.pc = "idle", !.todo = <<>>, !.status = StatusRaised]
    ELSE PopTodo(StatusStarted)

NoCallbacks == [callable |-> FALSE, f |-> None, list |-> <<>>]

\* a _bg_refresh invocation that returned or raised: its locals are gone
Ended(run, pc) == NoLocals(run.thread, pc, NoCallbacks)

\* line 67, and the test of line 70 on the session's SQLExecute
BgStart(r) ==
    /\ Running(r) /\ runs[r].pc = "start"
    /\ runs' = [runs EXCEPT ![r].completer = SQLCompleter(r + 1),
                            ![r].is_memory = (sqlexecute_dbname = Memory),
                            ![r].pc = "executor"]
    /\ UNCHANGED <<sqlexecute_dbname, schema, completer, completer_lock, completer_thread,
                   restart_refresh, fg, n_stmt>>

\* line 72 or line 75, which reads e.dbname again
BgExecutor(r) ==
    /\ Running(r) /\ runs[r].pc = "executor"
    /\ runs' = [runs EXCEPT ![r].executor = IF runs[r].is_memory THEN "session" ELSE "own",
                            ![r].executor_dbname =
                                IF runs[r].is_memory THEN None ELSE sqlexecute_dbname,
                            ![r].pc = "step",
                            ![r].i = 1]
    /\ UNCHANGED <<sqlexecute_dbname, schema, completer, completer_lock, completer_thread,
                   restart_refresh, fg, n_stmt>>

\* line 85: one refresher; an exception it lets through ends _bg_refresh
BgStep(r) ==
    /\ Running(r) /\ runs[r].pc = "step"
    /\ LET run == runs[r]
           name == refreshers[run.i]
           dbname == ExecutorDbname(run)
       IN \E src \in Sources(name, run) :
             LET out == refresher(name, run.completer, dbname, src)
             IN IF out.raised
                THEN /\ runs' = [runs EXCEPT ![r] = Ended(run, "raised")]
                     /\ fg' = FgAfter(r, TRUE)
                ELSE /\ runs' = [runs EXCEPT ![r].completer = out.completer,
                                             ![r].pass = Append(@, [name |-> name,
                                                                    dbname |-> dbname,
                                                                    src |-> src]),
                                             ![r].pc = "is_set"]
                     /\ fg' = fg
    /\ UNCHANGED <<sqlexecute_dbname, schema, completer, completer_lock, completer_thread,
                   restart_refresh, n_stmt>>

after_is_set_break(run, is_set) ==
    IF is_set THEN [pc |-> "callback", i |-> 1]
    ELSE IF run.i < Len(refreshers) THEN [pc |-> "step", i |-> run.i + 1]
    ELSE [pc |-> "callback", i |-> 1]

after_is_set_early(run, is_set) ==
    IF is_set THEN [pc |-> "clear", i |-> run.i]
    ELSE [pc |-> "callback", i |-> 1]

\* where _bg_refresh goes after the test of line 86

after_is_set(run, is_set) ==
    IF is_set THEN [pc |-> "clear", i |-> run.i]
    ELSE IF run.i < Len(refreshers) THEN [pc |-> "step", i |-> run.i + 1]
    ELSE [pc |-> "callback", i |-> 1]

\* line 86
BgIsSet(r) ==
    /\ Running(r) /\ runs[r].pc = "is_set"
    /\ LET to == after_is_set(runs[r], restart_refresh)
       IN runs' = [runs EXCEPT ![r].pc = to.pc, ![r].i = to.i]
    /\ UNCHANGED <<sqlexecute_dbname, schema, completer, completer_lock, completer_thread,
                   restart_refresh, fg, n_stmt>>

\* the completer the next pass works on
completer_for_restart(run) == run.completer

\* lines 87-88 and 96: clear the flag, start over from the first refresher
BgClear(r) ==
    /\ Running(r) /\ runs[r].pc = "clear"
    /\ restart_refresh' = FALSE
    /\ runs' = [runs EXCEPT ![r].completer = completer_for_restart(runs[r]),
                            ![r].pass = <<>>,
                            ![r].pc = "step",
                            ![r].i = 1]
    /\ UNCHANGED <<sqlexecute_dbname, schema, completer, completer_lock, completer_thread,
                   fg, n_stmt>>

\* the record of callback i being invoked
Invoked(run) ==
    Append(run.called, [callback |-> callbacks_list(run.callbacks)[run.i],
                        completer |-> run.completer.id])

\* _bg_refresh after callback i returned
AfterCallback(r) ==
    LET run == runs[r]
    IN IF run.i < Len(callbacks_list(run.callbacks))
       THEN /\ runs' = [runs EXCEPT ![r].pc = "callback", ![r].i = run.i + 1,
                                    ![r].called = Invoked(run)]
            /\ fg' = fg
       ELSE /\ runs' = [runs EXCEPT ![r] = Ended(run, "done")]
            /\ fg' = FgAfter(r, FALSE)


\* line 99 for _on_completions_refreshed: main.py line 784, the lock is taken
BgCallbackLock(r) ==
    /\ Running(r) /\ runs[r].pc = "callback"
    /\ callbacks_list(runs[r].callbacks)[runs[r].i] = on_completions_refreshed
    /\ completer_lock = None
    /\ completer_lock' = runs[r].thread
    /\ runs' = [runs EXCEPT ![r].pc = "swap"]
    /\ UNCHANGED <<sqlexecute_dbname, schema, completer, completer_thread,
                   restart_refresh, fg, n_stmt>>

\* main.py line 785, and the lock is released
BgCallbackSwap(r) ==
    /\ Running(r) /\ runs[r].pc = "swap"
    /\ completer' = runs[r].completer
    /\ completer_lock' = release(completer_lock)
    /\ AfterCallback(r)
    /\ UNCHANGED <<sqlexecute_dbname, schema, completer_thread, restart_refresh, n_stmt>>

\* line 99 for any other callback
BgCallbackOther(r) ==
    /\ Running(r) /\ runs[r].pc = "callback"
    /\ callbacks_list(runs[r].callbacks)[runs[r].i] # on_completions_refreshed
    /\ AfterCallback(r)
    /\ UNCHANGED <<sqlexecute_dbname, schema, completer, completer_lock, completer_thread,
                   restart_refresh, n_stmt>>

Next ==
    \/ (Rehash /\ UNCHANGED <<cmd_vars, other_vars>>)
    \/ (OpenDb /\ UNCHANGED <<cmd_vars, other_vars>>)
    \/ (UseDb /\ UNCHANGED <<cmd_vars, other_vars>>)
    \/ (Ddl /\ UNCHANGED <<cmd_vars, other_vars>>)
    \/ (ResetCompletions /\ UNCHANGED <<cmd_vars, other_vars>>)
    \/ (RefreshWhileRefreshing /\ UNCHANGED <<cmd_vars, other_vars>>)
    \/ (RefreshRestart /\ UNCHANGED <<cmd_vars, other_vars>>)
    \/ (RefreshSync /\ UNCHANGED <<cmd_vars, other_vars>>)
    \/ (RefreshStartThread /\ UNCHANGED <<cmd_vars, other_vars>>)
    \/ (PromptSessionEnter /\ UNCHANGED <<cmd_vars, other_vars>>)
    \/ (PromptSessionLeave /\ UNCHANGED <<cmd_vars, other_vars>>)
    \/ (GetCompletionsEnter /\ UNCHANGED <<cmd_vars, other_vars>>)
    \/ (GetCompletionsLeave /\ UNCHANGED <<cmd_vars, other_vars>>)
    \/ \E r \in DOMAIN runs : BgStart(r) /\ UNCHANGED <<cmd_vars, other_vars>>
    \/ \E r \in DOMAIN runs : BgExecutor(r) /\ UNCHANGED <<cmd_vars, other_vars>>
    \/ \E r \in DOMAIN runs : BgStep(r) /\ UNCHANGED <<cmd_vars, other_vars>>
    \/ \E r \in DOMAIN runs : BgIsSet(r) /\ UNCHANGED <<cmd_vars, other_vars>>
    \/ \E r \in DOMAIN runs : BgClear(r) /\ UNCHANGED <<cmd_vars, other_vars>>
    \/ \E r \in DOMAIN runs : BgCallbackLock(r) /\ UNCHANGED <<cmd_vars, other_vars>>
    \/ \E r \in DOMAIN runs : BgCallbackSwap(r) /\ UNCHANGED <<cmd_vars, other_vars>>
    \/ \E r \in DOMAIN runs : BgCallbackOther(r) /\ UNCHANGED <<cmd_vars, other_vars>>

Spec == Init /\ [][Next]_vars

\* every thread goes on running: a step that can be taken is taken
SpecLive == Spec /\ WF_vars(Next)

\* ------------------------------------------ special commands: dispatcher
\* the characters of the texts and names tried
Alphabet == {"q", "Q", "+", "-", " ", "\t"}

Texts == UNION {[1..n -> Alphabet] : n \in 0..MaxLen}

\* the registrations tried: each command name comes with a handler of its own
\* arg_type is an int: the three constants, and one value that is none of them
ArgTypes == NO_QUERY..(RAW_QUERY + 1)

Registrations ==
    {Reg(<<"handler">> \o command, command, arg_type, FALSE, case_sensitive, aliases) :
        command \in {<<"q">>, <<"Q">>},
        arg_type \in ArgTypes,
        case_sensitive \in BOOLEAN,
        aliases \in {<<>>, << <<"Q">> >>}}

\* the refresh coordinator before run_cli() has called it
RefreshIdle ==
    /\ sqlexecute_dbname = "a.db"
    /\ schema = [d \in Databases |-> 0]
    /\ completer = SQLCompleter(1)
    /\ completer_lock = None
    /\ completer_thread = 0
    /\ restart_refresh = FALSE
    /\ runs = <<>>
    /\ fg = [pc |-> "idle", todo |-> <<>>, status |-> NoStatus, refresh_dbname |-> None,
             statement |-> None]
    /\ n_stmt = 0

InitCmd ==
    /\ RefreshIdle
    /\ COMMANDS = <<>>
    /\ sql \in Texts
    /\ last_exec = Outcome(<<>>, <<>>, None, <<>>)
    /\ OtherIdle

Register ==
    /\ Len(COMMANDS) < MaxCommands
    /\ \E reg \in Registrations : COMMANDS' = register_special_command(COMMANDS, reg)
    /\ UNCHANGED <<sql, last_exec>>

Execute ==
    /\ last_exec' = execute(COMMANDS, "cur", sql)
    /\ UNCHANGED <<COMMANDS, sql>>

NextCmd ==
    \/ (Register /\ UNCHANGED <<refresh_vars, other_vars>>)
    \/ (Execute /\ UNCHANGED <<refresh_vars, other_vars>>)

SpecCmd == InitCmd /\ [][NextCmd]_vars

\* ------------------------------------------ special commands: help listing
\* ord(ch) of the characters used
CodePoint(ch) ==
    CASE ch = "\t" -> 9 [] ch = " " -> 32 [] ch = "*" -> 42 [] ch = "+" -> 43
      [] ch = "-" -> 45 [] ch = "A" -> 65 [] ch = "B" -> 66 [] ch = "Q" -> 81
      [] ch = "a" -> 97 [] ch = "b" -> 98 [] ch = "o" -> 111 [] ch = "q" -> 113
      [] ch = "u" -> 117 [] ch = "x" -> 120 [] ch = "y" -> 121

\* a < b for two str
RECURSIVE StrLess(_, _)
StrLess(a, b) ==
    IF b = <<>> THEN FALSE
    ELSE IF a = <<>> THEN TRUE
    ELSE IF Head(a) # Head(b) THEN CodePoint(Head(a)) < CodePoint(Head(b))
    ELSE StrLess(Tail(a), Tail(b))

\* sorted(COMMANDS.items()): the keys are distinct, so the order is theirs
RECURSIVE sorted(_)
sorted(items) ==
    IF items = <<>> THEN <<>>
    ELSE LET m == CHOOSE k \in DOMAIN items :
                      \A j \in DOMAIN items : j = k \/ StrLess(items[k].key, items[j].key)
             rest == [j \in 1..(Len(items) - 1) |-> IF j < m THEN items[j] ELSE items[j + 1]]
         IN <<items[m]>> \o sorted(rest)

RECURSIVE HelpRows(_, _)
HelpRows(items, k) ==
    IF k > Len(items) THEN <<>>
    ELSE (IF ~items[k].value.hidden
          THEN << <<items[k].value.command, items[k].value.shortcut,
                    items[k].value.description>> >>
          ELSE <<>>) \o HelpRows(items, k + 1)

show_help_unsorted(commands) == HelpRows(commands, 1)

\* the result rows of show_help()
show_help(commands) == HelpRows(sorted(commands), 1)

\* the names tried: two of one character that differ in case only, and one of
\* two characters
Names == {<<"q">>, <<"Q">>, <<"q", "Q">>}

AliasedRegistrations ==
    {Reg(<<"handler">> \o command, command, arg_type, FALSE, case_sensitive, aliases) :
        command \in {<<"q">>, <<"Q">>},
        arg_type \in {NO_QUERY, RAW_QUERY},
        case_sensitive \in BOOLEAN,
        aliases \in {<<>>, << <<"Q">> >>, << <<"q", "Q">>, <<"q", "q">> >>}}

InitHelp ==
    /\ RefreshIdle
    /\ COMMANDS = <<>>
    /\ sql \in Names
    /\ last_exec = Outcome(<<>>, <<>>, None, <<>>)
    /\ OtherIdle

RegisterAliased ==
    /\ Len(COMMANDS) < MaxListed
    /\ \E reg \in AliasedRegistrations : COMMANDS' = register_special_command(COMMANDS, reg)
    /\ UNCHANGED <<sql, last_exec, help>>

ShowHelp ==
    /\ help' = show_help(COMMANDS)
    /\ UNCHANGED <<COMMANDS, sql, last_exec>>

NextHelp ==
    \/ (RegisterAliased /\ UNCHANGED help_frame)
    \/ (Execute /\ UNCHANGED <<help_frame, help_vars>>)
    \/ (ShowHelp /\ UNCHANGED help_frame)

SpecHelp == InitHelp /\ [][NextHelp]_vars

\* ----------------------------------------------------- the read loop
\* (main.py, run_cli lines 663-670 and one_iteration lines 453-580)
\* the input lines told apart: a statement, one that need_completion_refresh
\* holds for, quit, an editor command, an llm command, a blank line
\* a line that reads a file (.read, source)
LineKinds == {"sql", "ddl", "quit", "editor", "llm", "blank", "read"}

\* Query = namedtuple("Query", ["query", "successful", "mutating"])
Query(query, successful, mutating) ==
    [query |-> query, successful |-> successful, mutating |-> mutating]

\* one_iteration returned: the next prompt; recorded says that it went
\* through lines 579-580, query_history.append(Query(text, successful,
\* mutating))
Continue(l, message, recorded) ==
    [l EXCEPT !.pc = "prompt", !.text = None, !.iterations = @ + 1,
              !.message = message, !.successful = FALSE, !.mutating = FALSE,
              !.history = IF recorded THEN Append(@, Query(l.text, l.successful, l.mutating))
                          ELSE @]

\* an exception left one_iteration: lines 667-670 catch EOFError only
Leave(l, error, at) ==
    [l EXCEPT !.pc = IF error = "EOFError" THEN "goodbye" ELSE "crashed",
              !.error = error, !.at = at]

\* lines 455-459: prompt() returns a line, or raises KeyboardInterrupt, or
\* EOFError at end-of-input
Prompt ==
    /\ loop.pc = "prompt" /\ loop.iterations < MaxIterations
    /\ \/ \E kind \in LineKinds : loop' = [loop EXCEPT !.pc = "editor", !.text = kind,
                                                       !.message = None]
       \/ loop' = Continue(loop, None, FALSE)
       \/ loop' = Leave(loop, "EOFError", "prompt")

\* lines 463-469, handle_editor_command lines 350-366: click.edit raises
\* ClickException when the editor cannot be run; a message of
\* open_external_editor becomes a RuntimeError; the edited text is read at a
\* prompt
Editor ==
    /\ loop.pc = "editor"
    /\ IF loop.text # "editor" THEN loop' = [loop EXCEPT !.pc = "llm"]
       ELSE \/ \E kind \in LineKinds \ {"editor"} : loop' = [loop EXCEPT !.pc = "llm", !.text = kind]
            \/ loop' = Continue(loop, "RuntimeError", FALSE)
            \/ loop' = Leave(loop, "ClickException", "editor")
            \/ loop' = Leave(loop, "EOFError", "prompt")

\* lines 471-494: handle_llm raises FinishIteration, RuntimeError, or the
\* ValueError of shlex.split (llm.py line 289, outside its try); the query is
\* then read at a prompt
Llm ==
    /\ loop.pc = "llm"
    /\ IF loop.text # "llm" THEN loop' = [loop EXCEPT !.pc = "blank"]
       ELSE \/ \E kind \in LineKinds \ {"editor", "llm"} :
                  loop' = [loop EXCEPT !.pc = "blank", !.text = kind]
            \/ loop' = Continue(loop, None, FALSE)               \* KeyboardInterrupt
            \/ loop' = Continue(loop, "FinishIteration", FALSE)
            \/ loop' = Continue(loop, "RuntimeError", FALSE)
            \/ loop' = Leave(loop, "ValueError", "llm")
            \/ loop' = Leave(loop, "EOFError", "prompt")

\* lines 496-497
Blank ==
    /\ loop.pc = "blank"
    /\ loop' = IF loop.text = "blank" THEN Continue(loop, None, FALSE)
               ELSE [loop EXCEPT !.pc = "confirm"]

\* prompt_utils.py, lines 31-42: None when the text is not destructive or
\* stdin is no terminal, else the answer given; a statement may be
\* destructive, a special command is not
confirm_destructive_query(text) ==
    IF text \in {"sql", "ddl"} THEN {"None", "True", "False"} ELSE {"None"}

\* lines 505-506: self.echo("Wise choice!"); return
wise_choice_goes_on(l) == [l EXCEPT !.pc = "run", !.message = "Wise choice!"]

wise_choice(l) == Continue(l, "Wise choice!", FALSE)

\* lines 499-506; with destructive_warning off, destroy stays None
Confirm ==
    /\ loop.pc = "confirm"
    /\ \E destroy \in confirm_destructive_query(loop.text) :
          LET l == [loop EXCEPT !.destroy = destroy]
          IN loop' = IF destroy = "False" THEN wise_choice(l) ELSE [l EXCEPT !.pc = "run"]

\* what sqlexecute.run(text) and output_res can raise: the quit handler raises
\* EOFError (special/main.py line 169)
RunErrors(text) ==
    IF text = "quit" THEN {"EOFError"}
    ELSE {"KeyboardInterrupt", "NotImplementedError", "OperationalError", "Exception"}

\* output_res: is_mutating(status) of a result, which the statement decides
Mutating(text) == IF text = "ddl" THEN {TRUE} ELSE BOOLEAN

\* execute_from_file (lines 220-235), reached while output_res consumes the
\* results of the line: the file cannot be read, or the confirmation of its
\* content is False, and a message is the result; or the content is passed
\* to sqlexecute.run
ReadAnswers ==
    {"Missing required argument, filename.", "IOError",
     "Wise choice. Command execution stopped.", "run"}

\* execute_from_file as a whole: a message is the result, or the content of
\* the file is passed to sqlexecute.run (line 235)
execute_from_file(l, answer) ==
    IF answer = "run" THEN [l EXCEPT !.executed = Append(@, "content")]
    ELSE [l EXCEPT !.message = answer]

\* lines 510-567 and 576-580: the try statement with its except clauses and
\* the finally clause, then query_history.append.
\* A KeyboardInterrupt before line 519 is handled with successful not yet
\* bound, and line 579 raises UnboundLocalError; one between lines 519 and
\* 523 leaves successful False. sqlexecute.run is a generator function:
\* line 521 runs nothing, successful becomes True at line 523, and the
\* statements are executed while output_res (line 528) consumes the results.
Run ==
    /\ loop.pc = "run"
    /\ \/ loop' = Leave(loop, "UnboundLocalError", "history")
       \/ loop' = Continue(loop, "KeyboardInterrupt", TRUE)
       \/ LET called == [loop EXCEPT !.successful = TRUE, !.executed = Append(@, loop.text)]
              Consumed(l) ==
                  \/ /\ l.text # "quit"
                     /\ \E mutating \in Mutating(l.text) :
                            loop' = [l EXCEPT !.pc = "refresh", !.mutating = mutating]
                  \/ \E e \in RunErrors(l.text) :
                         loop' = IF e = "EOFError" THEN Leave(l, e, "run")
                                 ELSE Continue(l, e, TRUE)
          IN IF loop.text # "read" THEN Consumed(called)
             ELSE \E answer \in ReadAnswers :
                      IF answer = "run"
                      THEN Consumed(execute_from_file(called, answer))
                      ELSE loop' = [execute_from_file(called, answer) EXCEPT !.pc = "refresh"]

\* lines 571-575: the else clause of the try statement, which no except
\* clause covers; then lines 579-580
refresh_after_statement(l, raises) ==
    IF raises THEN Leave(l, "Exception", "refresh") ELSE Continue(l, None, TRUE)

AfterRun ==
    /\ loop.pc = "refresh"
    /\ IF loop.text = "ddl"
       THEN \E raises \in BOOLEAN :
                loop' = refresh_after_statement([loop EXCEPT !.refreshes = @ + 1], raises)
       ELSE loop' = Continue(loop, None, TRUE)

NextLoop ==
    \/ (Prompt /\ UNCHANGED loop_frame)
    \/ (Editor /\ UNCHANGED loop_frame)
    \/ (Llm /\ UNCHANGED loop_frame)
    \/ (Blank /\ UNCHANGED loop_frame)
    \/ (Confirm /\ UNCHANGED loop_frame)
    \/ (Run /\ UNCHANGED loop_frame)
    \/ (AfterRun /\ UNCHANGED loop_frame)

InitLoop ==
    /\ RefreshIdle
    /\ COMMANDS = StartupCommands
    /\ sql = <<>>
    /\ last_exec = Outcome(<<>>, <<>>, None, <<>>)
    /\ OtherIdle

SpecLoop == InitLoop /\ [][NextLoop]_vars

\* --------------------------------------------------- SQLExecute.run
\* (sqlexecute.py, lines 100-153)
\* the registry of a session: special/main.py lines 155-169 and main.py
\* lines 150-157
SessionCommands ==
    register_special_command(
        register_special_command(
            register_special_command(StartupCommands,
                Reg("quit", <<".", "e", "x", "i", "t">>, NO_QUERY, FALSE, FALSE,
                    << <<"\\", "q">>, <<"e", "x", "i", "t">> >>)),
            Reg("change_db", <<".", "o", "p", "e", "n">>, PARSED_QUERY, FALSE, FALSE,
                << <<"u", "s", "e">>, <<"\\", "u">> >>)),
        Reg("save_favorite_query", <<"\\", "f", "s">>, PARSED_QUERY, FALSE, FALSE, <<>>))

StartsWith(s, prefix) ==
    Len(s) >= Len(prefix) /\ SubSeq(s, 1, Len(prefix)) = prefix

EndsWith(s, suffix) ==
    Len(s) >= Len(suffix) /\ SubSeq(s, Len(s) - Len(suffix) + 1, Len(s)) = suffix

\* the prefixes of lines 127-134
AllowedPrefixes ==
    {<<".", "o", "p", "e", "n">>, <<"\\", "u">>, <<"\\", "?">>, <<"\\", "q">>,
     <<"h", "e", "l", "p">>, <<"e", "x", "i", "t">>, <<"q", "u", "i", "t">>}

\* lines 126-135: the test made of a sub-statement when there is no connection
allowed_without_connection(text) ==
    \/ StartsWith(lower(text), <<"u", "s", "e">>)
    \/ \E prefix \in AllowedPrefixes : StartsWith(text, prefix)

\* a text that starts with a dot (special/utils.py, as test_dbspecial.py
\* lines 83-93 pin it down)
check_if_sqlitedotcommand(text) == StartsWith(text, <<".">>)

\* the sub-statements tried, as sqlparse.split returns them
SubStatements ==
    {<<".", "o", "p", "e", "n", " ", "x">>,
     <<"U", "S", "E", " ", "x">>,
     <<"h", "e", "l", "p", ";">>,
     <<"h", "e", "l", "p", "e", "r">>,
     <<"q", "u", "i", "t">>,
     <<"s", "e", "l", "e", "c", "t">>,
     <<"s", "e", "l", "e", "c", "t", "\\", "G">>,
     <<".", "t", "a", "b", "l", "e", "s">>}

Statements == UNION {[1..n -> SubStatements] : n \in 0..MaxComponents}

\* the text of a line that holds the sub-statements parts, a semicolon
\* between two of them
RECURSIVE Join(_)
Join(parts) ==
    IF parts = <<>> THEN <<>>
    ELSE IF Len(parts) = 1 THEN parts[1]
    ELSE parts[1] \o (IF EndsWith(parts[1], <<";">>) THEN <<" ">> ELSE <<";", " ">>)
         \o Join(Tail(parts))

\* lines that save a favorite query of two statements
FavoriteSaves ==
    {<<"\\", "f", "s", " ", "n", " ", "s", ";", " ", "q", "u", "i", "t">>,
     <<" ", "\\", "f", "s", " ", "n", " ", "s", ";", "s", ";">>}

\* the texts run() is called with
StatementTexts == {Join(parts) : parts \in Statements} \cup {<<" ">>} \cup FavoriteSaves

\* sqlparse.split(sql): the statements of the text, each up to and with its
\* semicolon, stripped, none of them empty
RECURSIVE SplitFrom(_, _, _)
SplitFrom(text, k, piece) ==
    LET closed == IF strip(piece, Whitespace) = <<>> THEN <<>>
                  ELSE <<strip(piece, Whitespace)>>
    IN IF k > Len(text) THEN closed
       ELSE IF text[k] = ";"
       THEN (IF strip(piece, Whitespace) = <<>> THEN <<>>
             ELSE <<strip(piece, Whitespace) \o <<";">> >>) \o SplitFrom(text, k + 1, <<>>)
       ELSE SplitFrom(text, k + 1, Append(piece, text[k]))

sqlparse_split_statements(text) == SplitFrom(text, 1, <<>>)

components_always_split(statement) == sqlparse_split_statements(statement)

\* lines 114-117, of the stripped statement
components_of(statement) ==
    IF StartsWith(statement, <<"\\", "f", "s">>) THEN <<statement>>
    ELSE sqlparse_split_statements(statement)

\* line 109: yield (None, None, None, None)
EmptyResult == <<None, None, None, None>>

NotConnected == "OperationalError: Not connected to database."

\* what handling one sub-statement did: what ran, what was yielded, what was
\* raised, and the connection afterwards
Handled(text, conn, ran, yielded, raised, conn_after) ==
    [sql |-> text, conn |-> conn, ran |-> ran, yielded |-> yielded, raised |-> raised,
     conn_after |-> conn_after]

\* lines 119-124
strip_statement(component) ==
    LET s1 == RStrip(component, {";"})
    IN IF EndsWith(s1, <<"\\", "G">>)
       THEN strip(SubSeq(s1, 1, Len(s1) - 2), Whitespace)
       ELSE s1

\* the ways the handler of a special command can end (change_db: main.py
\* lines 201-218 with connect, sqlexecute.py lines 72-99; quit: special/main.py
\* line 169; show_help)
HandlerOutcomes(text, conn, handler) ==
    CASE handler = "change_db" ->
            {Handled(text, conn, <<handler>>, <<"status">>, None, TRUE),
             Handled(text, conn, <<handler>>, <<>>, "Exception", conn)}
      [] handler = "quit" -> {Handled(text, conn, <<handler>>, <<>>, "EOFError", conn)}
      [] OTHER -> {Handled(text, conn, <<handler>>, <<"rows">>, None, conn)}

\* lines 126-153 for one sub-statement
run_component(commands, conn, component) ==
    LET text == strip_statement(component)
    IN IF ~conn /\ ~allowed_without_connection(text)
       THEN {Handled(text, conn, <<>>, <<>>, NotConnected, conn)}
       ELSE LET cur == IF conn THEN "cur" ELSE None
                out == execute(commands, cur, text)
            IN IF out.raised = CommandNotFound
               THEN IF check_if_sqlitedotcommand(text)
                    THEN {Handled(text, conn, <<>>, <<"dot command not implemented">>,
                                  None, conn)}
                    ELSE IF cur = None
                    THEN {Handled(text, conn, <<>>, <<>>, "AssertionError", conn)}
                    ELSE {Handled(text, conn, <<"sql">>, <<"result">>, None, conn),
                          Handled(text, conn, <<"sql">>, <<>>, "sqlite3.Error", conn)}
               ELSE HandlerOutcomes(text, conn, out.calls[1].handler)

\* run(statement) is called and the generator is started: lines 106-117; an
\* empty statement yields the empty result, and the loop then has nothing
\* to go through
RunCall ==
    /\ sqlrun.pc = "idle"
    /\ \E text \in StatementTexts :
          LET statement == strip(text, Whitespace)
          IN sqlrun' = [sqlrun EXCEPT !.pc = "running",
                                      !.statement = text,
                                      !.first = IF statement = <<>> THEN <<EmptyResult>>
                                                ELSE <<>>,
                                      !.components = components_of(statement),
                                      !.k = 1,
                                      !.trace = <<>>]

\* the generator is resumed for the next sub-statement: lines 117-153
RunComponent ==
    /\ sqlrun.pc = "running" /\ sqlrun.k <= Len(sqlrun.components)
    /\ \E h \in run_component(COMMANDS, sqlrun.conn, sqlrun.components[sqlrun.k]) :
          sqlrun' = [sqlrun EXCEPT !.conn = h.conn_after,
                                   !.trace = Append(@, h),
                                   !.k = @ + 1,
                                   !.pc = IF h.raised = None THEN "running" ELSE "raised"]

\* the generator is exhausted, or the exception reached the caller
RunReturn ==
    /\ \/ sqlrun.pc = "running" /\ sqlrun.k > Len(sqlrun.components)
       \/ sqlrun.pc = "raised"
    /\ sqlrun' = NoRun(sqlrun.conn)

NextRun ==
    \/ (RunCall /\ UNCHANGED run_frame)
    \/ (RunComponent /\ UNCHANGED run_frame)
    \/ (RunReturn /\ UNCHANGED run_frame)

InitRun ==
    /\ RefreshIdle
    /\ COMMANDS = SessionCommands
    /\ sql = <<>>
    /\ last_exec = Outcome(<<>>, <<>>, None, <<>>)
    /\ help = <<>>
    /\ LoopIdle
    /\ \E conn \in BOOLEAN : sqlrun = NoRun(conn)
    /\ SpecialIdle
    /\ IndexIdle
    /\ AskedIdle

SpecRun == InitRun /\ [][NextRun]_vars

\* ------------------------------------- packages.special: the handlers
\* (iocommands.py, dbcommands.py, favoritequeries.py)
\* "sub in s" for texts
In(sub, s) ==
    \E k \in 1..(Len(s) - Len(sub) + 1) : SubSeq(s, k, k + Len(sub) - 1) = sub

\* str.replace(old, new, count); a negative count replaces every occurrence
RECURSIVE replace(_, _, _, _)
replace(s, old, new, count) ==
    IF count = 0 \/ Len(s) < Len(old) THEN s
    ELSE IF SubSeq(s, 1, Len(old)) = old
    THEN new \o replace(SubSeq(s, Len(old) + 1, Len(s)), old, new, count - 1)
    ELSE <<Head(s)>> \o replace(Tail(s), old, new, count)

\* position of the first character of s, from k on, that is in chars; 0 when
\* there is none
RECURSIVE FindIn(_, _, _)
FindIn(s, chars, k) ==
    IF k > Len(s) THEN 0 ELSE IF s[k] \in chars THEN k ELSE FindIn(s, chars, k + 1)

\* shlex.split(s) on a text without quotes and escapes: its words
RECURSIVE shlex_split(_)
shlex_split(s) ==
    LET t == LStrip(s, Whitespace)
        k == FindIn(t, Whitespace, 1)
    IN IF t = <<>> THEN <<>>
       ELSE IF k = 0 THEN <<t>>
       ELSE <<SubSeq(t, 1, k - 1)>> \o shlex_split(SubSeq(t, k + 1, Len(t)))

DigitChars == <<"1", "2", "3", "4", "5", "6", "7", "8", "9">>

\* str(n) for 1 <= n <= 9
str(n) == <<DigitChars[n]>>

IsDigit(ch) == ch = "0" \/ \E k \in DOMAIN DigitChars : DigitChars[k] = ch

\* how many digits s holds from position k on
RECURSIVE DigitRun(_, _)
DigitRun(s, k) ==
    IF k > Len(s) \/ ~IsDigit(s[k]) THEN 0 ELSE 1 + DigitRun(s, k + 1)

\* re.search(r"\?|\$\d+", query).group(0), None when nothing matches
re_search_marker(query) ==
    LET starts == {k \in DOMAIN query :
                      \/ query[k] = "?"
                      \/ query[k] = "$" /\ DigitRun(query, k + 1) > 0}
    IN IF starts = {} THEN None
       ELSE LET k == CHOOSE m \in starts : \A n \in starts : m <= n
            IN IF query[k] = "?" THEN <<"?">>
               ELSE SubSeq(query, k, k + DigitRun(query, k + 1))

\* the statuses of subst_favorite_query_args, as the pieces they are
\* concatenated from
TooManyArguments(query) ==
    <<"Too many arguments.\nQuery does not have enough place holders to substitute.\n", query>>

MissingSubstitution(marker, query) ==
    <<"missing substitution for ", marker, " in query:\n  ", query>>

\* the loop of subst_favorite_query_args from argument idx (counted from 1)
\* on, and the search after it: <<query, arg_error>>
RECURSIVE SubstLoop(_, _, _)
SubstLoop(query, args, idx) ==
    IF idx > Len(args)
    THEN LET match == re_search_marker(query)
         IN IF match # None THEN <<None, MissingSubstitution(match, query)>>
            ELSE <<query, None>>
    ELSE LET val == args[idx]
             shell_subst_var == <<"$">> \o str(idx)
             question_subst_var == <<"?">>
         IN IF In(shell_subst_var, query)
            THEN SubstLoop(replace(query, shell_subst_var, val, -1), args, idx + 1)
            ELSE IF In(question_subst_var, query)
            THEN SubstLoop(replace(query, question_subst_var, val, 1), args, idx + 1)
            ELSE <<None, TooManyArguments(query)>>

subst_favorite_query_args(query, args) == SubstLoop(query, args, 1)

\* FavoriteQueries over its config section, a dict in insertion order
favoritequeries_list(favorites) == Keys(favorites)

favoritequeries_get(favorites, name) ==
    IF HasKey(favorites, name) THEN Lookup(favorites, name) ELSE None

favoritequeries_save(favorites, name, query) == DictPut(favorites, name, query)

Without(favorites, name) ==
    LET keep == {k \in DOMAIN favorites : favorites[k].key # name}
        Nth(n) == CHOOSE k \in keep : Cardinality({j \in keep : j < k}) = n - 1
    IN [n \in 1..Cardinality(keep) |-> favorites[Nth(n)]]

favoritequeries_delete_keeps(favorites, name) ==
    IF ~HasKey(favorites, name)
    THEN [favorites |-> favorites, status |-> <<name, ": Not Found.">>]
    ELSE [favorites |-> favorites, status |-> <<name, ": Deleted">>]

\* [favorites, status]
favoritequeries_delete(favorites, name) ==
    IF ~HasKey(favorites, name)
    THEN [favorites |-> favorites, status |-> <<name, ": Not Found.">>]
    ELSE [favorites |-> Without(favorites, name), status |-> <<name, ": Deleted">>]

favoritequeries_usage == "usage"

StatusOnly(status) == <<None, None, None, status>>

\* sqlparse.split(query) on a text that holds one statement at most
sqlparse_split(query) ==
    IF strip(query, Whitespace) = <<>> THEN <<>> ELSE <<strip(query, Whitespace)>>

\* how many ? a statement holds
RECURSIVE Placeholders(_)
Placeholders(s) ==
    IF s = <<>> THEN 0
    ELSE (IF Head(s) = "?" THEN 1 ELSE 0) + Placeholders(Tail(s))

ProgrammingError == "ProgrammingError"

cur_execute_unchecked(s, args) == None

\* cur.execute(sql, args): what sqlite3 raises when the bindings supplied are
\* not as many as the statement's placeholders
cur_execute(s, args) ==
    IF Placeholders(s) # Len(args) THEN ProgrammingError ELSE None

\* the "for sql in sqlparse.split(query)" loops of execute_favorite_query
\* from statement k on, after the results r
RECURSIVE RunStatements(_, _, _, _, _)
RunStatements(sqls, args, verbose, k, r) ==
    IF k > Len(sqls) THEN r
    ELSE LET s == RStrip(sqls[k], {";"})
             title == IF verbose THEN <<"> ", s>> ELSE None
             error == cur_execute(s, args)
         IN IF error # None THEN [r EXCEPT !.raised = error]
            ELSE RunStatements(sqls, args, verbose, k + 1,
                     [r EXCEPT !.results = Append(@, <<title, "cur", "headers", None>>),
                               !.executed = Append(@, <<s, args>>)])

list_favorite_queries(favorites) ==
    LET rows == [k \in DOMAIN favorites |-> <<favorites[k].key, favorites[k].value>>]
        status == IF rows = <<>>
                  THEN <<"\nNo favorite queries found.", favoritequeries_usage>>
                  ELSE <<>>
    IN << <<<<>>, rows, <<"Name", "Query">>, status>> >>

\* the results the generator yields, and the error that ends it
execute_favorite_query(favorites, arg, verbose) ==
    LET listed == HandlerResult(None,
                      IF arg = <<>> THEN list_favorite_queries(favorites) ELSE <<>>, <<>>)
        parts == partition(arg, " ")
        name == parts[1]
        args == shlex_split(parts[3])
        query == favoritequeries_get(favorites, name)
    IN IF query = None
       THEN [listed EXCEPT !.results = Append(@, StatusOnly(<<"No favorite query: ", name>>))]
       ELSE IF In(<<"?">>, query)
       THEN RunStatements(sqlparse_split(query), args, verbose, 1, listed)
       ELSE LET subst == subst_favorite_query_args(query, args)
            IN IF subst[2] # None
               THEN [listed EXCEPT !.results = Append(@, StatusOnly(subst[2]))]
               ELSE RunStatements(sqlparse_split(subst[1]), <<>>, verbose, 1, listed)

\* [favorites, result]
save_favorite_query(favorites, arg) ==
    LET usage == <<"Syntax: \\fs name query.\n\n", favoritequeries_usage>>
        parts == partition(arg, " ")
        name == parts[1]
        query == parts[3]
    IN IF arg = <<>>
       THEN [favorites |-> favorites,
             result |-> HandlerResult(None, <<StatusOnly(usage)>>, <<>>)]
       ELSE IF name = <<>> \/ query = <<>>
       THEN [favorites |-> favorites,
             result |-> HandlerResult(None,
                 <<StatusOnly(usage \o <<"Err: Both name and query are required.">>)>>, <<>>)]
       ELSE [favorites |-> favoritequeries_save(favorites, name, query),
             result |-> HandlerResult(None, <<StatusOnly(<<"Saved.">>)>>, <<>>)]

\* [favorites, result]
delete_favorite_query(favorites, arg) ==
    LET usage == <<"Syntax: \\fd name.\n\n", favoritequeries_usage>>
        deleted == favoritequeries_delete(favorites, arg)
    IN IF arg = <<>>
       THEN [favorites |-> favorites,
             result |-> HandlerResult(None, <<StatusOnly(usage)>>, <<>>)]
       ELSE [favorites |-> deleted.favorites,
             result |-> HandlerResult(None, <<StatusOnly(deleted.status)>>, <<>>)]

\* an exception and its message, as one string
TypeError(message) == "TypeError: " \o message
OSError(message) == "OSError: " \o message

parseargfile_any_name(arg) ==
    IF StartsWith(arg, <<"-", "o", " ">>)
    THEN [raised |-> None, file |-> SubSeq(arg, 4, Len(arg)), mode |-> "w"]
    ELSE [raised |-> None, file |-> arg, mode |-> "a"]

\* [raised, file, mode]
parseargfile(arg) ==
    LET mode == IF StartsWith(arg, <<"-", "o", " ">>) THEN "w" ELSE "a"
        filename == IF StartsWith(arg, <<"-", "o", " ">>) THEN SubSeq(arg, 4, Len(arg)) ELSE arg
    IN IF filename = <<>>
       THEN [raised |-> TypeError("You must provide a filename."), file |-> None, mode |-> None]
       ELSE [raised |-> None, file |-> filename, mode |-> mode]

\* the path that cannot be opened and the program that cannot be started
Denied == <<"d">>

\* the body of set_tee and of set_once: [raised, file], file being the new
\* value of tee_file or once_file when nothing is raised
open_argfile(arg) ==
    LET parsed == parseargfile(arg)
    IN IF parsed.raised # None THEN [raised |-> parsed.raised, file |-> None]
       ELSE IF parsed.file = Denied
       THEN [raised |-> OSError("Cannot write to file"), file |-> None]
       ELSE [raised |-> None, file |-> <<parsed.file, parsed.mode>>]

set_tee(s, arg) ==
    LET opened == open_argfile(arg)
    IN IF opened.raised # None
       THEN [s EXCEPT !.result = HandlerResult(opened.raised, <<>>, <<>>)]
       ELSE [s EXCEPT !.tee_file = opened.file,
                      !.result = HandlerResult(None, <<StatusOnly(<<>>)>>, <<>>)]

set_once(s, arg) ==
    LET opened == open_argfile(arg)
    IN IF opened.raised # None
       THEN [s EXCEPT !.result = HandlerResult(opened.raised, <<>>, <<>>)]
       ELSE [s EXCEPT !.once_file = opened.file, !.written_to_once_file = FALSE,
                      !.result = HandlerResult(None, <<StatusOnly(<<>>)>>, <<>>)]

set_pipe_once(s, arg) ==
    LET pipe_once_cmd == shlex_split(arg)
    IN IF Len(pipe_once_cmd) = 0
       THEN [s EXCEPT !.result =
                HandlerResult(OSError("pipe_once requires a command"), <<>>, <<>>)]
       ELSE IF pipe_once_cmd[1] = Denied   \* subprocess.Popen raises
       THEN [s EXCEPT !.result = HandlerResult(OSError("Popen"), <<>>, <<>>)]
       ELSE [s EXCEPT !.pipe_once_process = pipe_once_cmd,
                      !.result = HandlerResult(None, <<StatusOnly(<<>>)>>, <<>>)]

\* load_extension returns None: results is None, not a list
load_extension(arg) ==
    LET args == shlex_split(arg)
    IN IF Len(args) # 1
       THEN HandlerResult(TypeError(".load accepts exactly one path"), <<>>, <<>>)
       ELSE HandlerResult(None, None, <<<<"load_extension", args[1]>>>>)

import_file(arg) ==
    LET args == shlex_split(arg)
    IN IF Len(args) # 2
       THEN HandlerResult(TypeError("Usage: .import filename table"), <<>>, <<>>)
       ELSE LET pragma == <<<<"PRAGMA table_info", args[2]>>>>
            IN IF args[1] = Denied   \* open(filename, "r") raises
               THEN HandlerResult(OSError("open"), <<>>, pragma)
               ELSE HandlerResult(None, <<StatusOnly(<<"Inserted">>)>>,
                                  Append(pragma, <<"INSERT INTO", args[2]>>))

\* the registrations made when iocommands.py and dbcommands.py are imported
RECURSIVE RegisterEach(_, _, _)
RegisterEach(commands, regs, k) ==
    IF k > Len(regs) THEN commands
    ELSE RegisterEach(register_special_command(commands, regs[k]), regs, k + 1)

HandlerCommands ==
    RegisterEach(<<>>,
        <<Reg("execute_favorite_query", <<"\\", "f">>, PARSED_QUERY, FALSE, TRUE, <<>>),
          Reg("save_favorite_query", <<"\\", "f", "s">>, PARSED_QUERY, FALSE, FALSE, <<>>),
          Reg("delete_favorite_query", <<"\\", "f", "d">>, PARSED_QUERY, FALSE, FALSE, <<>>),
          Reg("set_tee", <<".", "o", "u", "t", "p", "u", "t">>, PARSED_QUERY, FALSE, FALSE,
              << <<"t", "e", "e">> >>),
          Reg("set_once", <<".", "o", "n", "c", "e">>, PARSED_QUERY, FALSE, FALSE,
              << <<"\\", "o">>, <<"\\", "o", "n", "c", "e">> >>),
          Reg("set_pipe_once", <<"\\", "p", "i", "p", "e", "_", "o", "n", "c", "e">>,
              PARSED_QUERY, FALSE, FALSE, << <<"\\", "|">> >>),
          Reg("load_extension", <<".", "l", "o", "a", "d">>, PARSED_QUERY, FALSE, TRUE, <<>>),
          Reg("import_file", <<".", "i", "m", "p", "o", "r", "t">>, PARSED_QUERY, FALSE, TRUE,
              <<>>)>>, 1)

\* the handler call that execute() makes, applied to packages.special
call_handler(s, call) ==
    CASE call.handler = "execute_favorite_query" ->
            [s EXCEPT !.result = execute_favorite_query(s.favorites, call.arg, call.verbose)]
      [] call.handler = "save_favorite_query" ->
            LET saved == save_favorite_query(s.favorites, call.arg)
            IN [s EXCEPT !.favorites = saved.favorites, !.result = saved.result]
      [] call.handler = "delete_favorite_query" ->
            LET deleted == delete_favorite_query(s.favorites, call.arg)
            IN [s EXCEPT !.favorites = deleted.favorites, !.result = deleted.result]
      [] call.handler = "set_tee" -> set_tee(s, call.arg)
      [] call.handler = "set_once" -> set_once(s, call.arg)
      [] call.handler = "set_pipe_once" -> set_pipe_once(s, call.arg)
      [] call.handler = "load_extension" -> [s EXCEPT !.result = load_extension(call.arg)]
      [] call.handler = "import_file" -> [s EXCEPT !.result = import_file(call.arg)]

\* special.execute(cur, text), consumed to its end
special_execute(s, text) ==
    LET out == execute(HandlerCommands, "cur", text)
    IN IF out.raised # None
       THEN [s EXCEPT !.text = text, !.result = HandlerResult(out.raised, <<>>, <<>>)]
       ELSE [call_handler(s, out.calls[1]) EXCEPT !.text = text]

\* a command and its argument, as typed
Typed(command, arg) == IF arg = <<>> THEN command ELSE command \o <<" ">> \o arg

SaveTexts ==
    {Typed(<<"\\", "f", "s">>, arg) :
        arg \in {<<>>, <<"q">>,
                 <<"q", " ", "$", "1">>, <<"q", " ", "$", "1", " ", "$", "2">>,
                 <<"q", " ", "?">>, <<"q", " ", "x">>, <<"r", " ", "x">>}}

DeleteTexts ==
    {Typed(<<"\\", "f", "d">>, arg) : arg \in {<<>>, <<"q">>, <<"r">>, <<"q", " ", "r">>}}

RunTexts ==
    {Typed(command, arg) :
        command \in {<<"\\", "f">>, <<"\\", "f", "+">>},
        arg \in {<<>>, <<"q">>, <<"q", " ", "a">>, <<"q", " ", "a", " ", "b">>,
                 <<"q", " ", "?">>, <<"q", " ", "$", "2", " ", "b">>,
                 <<"q", " ", "?", " ", "b">>, <<"r">>, <<"z">>}}

RedirectTexts ==
    {Typed(command, arg) :
        command \in {<<".", "o", "n", "c", "e">>, <<".", "o", "u", "t", "p", "u", "t">>,
                     <<"\\", "p", "i", "p", "e", "_", "o", "n", "c", "e">>},
        arg \in {<<>>, <<"f">>, <<"-", "o", " ", "f">>, <<"d">>}}

DbTexts ==
    {Typed(command, arg) :
        command \in {<<".", "i", "m", "p", "o", "r", "t">>, <<".", "l", "o", "a", "d">>},
        arg \in {<<>>, <<"f">>, <<"f", " ", "t">>, <<"d", " ", "t">>,
                 <<"f", " ", "t", " ", "u">>}}

SaveFavorite == \E text \in SaveTexts : special' = special_execute(special, text)

DeleteFavorite == \E text \in DeleteTexts : special' = special_execute(special, text)

RunFavorite == \E text \in RunTexts : special' = special_execute(special, text)

Redirect == \E text \in RedirectTexts : special' = special_execute(special, text)

DbCommand == \E text \in DbTexts : special' = special_execute(special, text)

\* the favorite queries and the redirections do not touch each other's
\* state: each is explored on its own
NextFavorite ==
    \/ (SaveFavorite /\ UNCHANGED special_frame)
    \/ (DeleteFavorite /\ UNCHANGED special_frame)
    \/ (RunFavorite /\ UNCHANGED special_frame)

NextSpecial ==
    \/ (Redirect /\ UNCHANGED special_frame)
    \/ (DbCommand /\ UNCHANGED special_frame)

InitSpecial ==
    /\ RefreshIdle
    /\ COMMANDS = HandlerCommands
    /\ sql = <<>>
    /\ last_exec = Outcome(<<>>, <<>>, None, <<>>)
    /\ OtherIdle

SpecSpecial == InitSpecial /\ [][NextSpecial]_vars

SpecFavorite == InitSpecial /\ [][NextFavorite]_vars

\* ------------------------------------- SQLCompleter: the extend_* builders
\* (sqlcompleter.py, lines 288-391), called on one completer in any order
MaxEntries == 2

\* the arguments the builders are called with
DatabaseLists == {<<"main">>}
SchemaNames == {"a.db"}
RelationLists == {<< <<"t">> >>, << <<"u">> >>}
RelationKinds == {"tables", "views"}
ColumnLists == {<< <<"t", "a">> >>, << <<"u", "x">> >>}
FunctionLists == {<< <<"f">> >>}
CommandLists == {<<"help">>}

\* every list of the completer holds MaxEntries entries at most (the "*" of
\* a relation not counted)
WithinEntries(c) ==
    /\ Len(c.databases) <= MaxEntries
    /\ Len(c.special_commands) <= MaxEntries
    /\ \A kind \in RelationKinds : \A d \in DOMAIN c.dbmetadata[kind] :
           \A r \in DOMAIN c.dbmetadata[kind][d] :
               Len(c.dbmetadata[kind][d][r]) <= MaxEntries + 1

\* a call left the completer as c and raised what raised says
Called(c, raised) ==
    /\ WithinEntries(c)
    /\ index' = [completer |-> c, raised |-> raised]

CallReset == Called(reset_completions(index.completer), None)

CallSetDbname ==
    \E dbname \in SchemaNames : Called(set_dbname(index.completer, dbname), None)

CallExtendDatabaseNames ==
    \E databases \in DatabaseLists :
        Called(extend_database_names(index.completer, databases), None)

CallExtendSchemata ==
    \E name \in SchemaNames \cup {None} :
        Called(extend_schemata(index.completer, name), None)

CallExtendRelations ==
    \E data \in RelationLists, kind \in RelationKinds :
        Called(extend_relations(index.completer, data, kind), None)

CallExtendColumns ==
    \E column_data \in ColumnLists, kind \in RelationKinds :
        Called(extend_columns(index.completer, column_data, kind),
               extend_columns_raises(index.completer, column_data, kind))

CallExtendFunctions ==
    \E rows \in FunctionLists, raises \in BOOLEAN :
        Called(extend_functions(index.completer, [raises |-> raises, rows |-> rows]),
               extend_functions_raises(index.completer, [raises |-> raises, rows |-> rows]))

CallExtendSpecialCommands ==
    \E special_commands \in CommandLists :
        Called(extend_special_commands(index.completer, special_commands), None)

NextIndex ==
    \/ (CallReset /\ UNCHANGED index_frame)
    \/ (CallSetDbname /\ UNCHANGED index_frame)
    \/ (CallExtendDatabaseNames /\ UNCHANGED index_frame)
    \/ (CallExtendSchemata /\ UNCHANGED index_frame)
    \/ (CallExtendRelations /\ UNCHANGED index_frame)
    \/ (CallExtendColumns /\ UNCHANGED index_frame)
    \/ (CallExtendFunctions /\ UNCHANGED index_frame)
    \/ (CallExtendSpecialCommands /\ UNCHANGED index_frame)

InitIndex ==
    /\ RefreshIdle
    /\ COMMANDS = <<>>
    /\ sql = <<>>
    /\ last_exec = Outcome(<<>>, <<>>, None, <<>>)
    /\ help = <<>>
    /\ LoopIdle
    /\ sqlrun = NoRun(TRUE)
    /\ SpecialIdle
    /\ index = [completer |-> SQLCompleter(1), raised |-> None]
    /\ AskedIdle

SpecIndex == InitIndex /\ [][NextIndex]_vars

\* ------------------------------------- SQLCompleter.escape_name on texts
\* (sqlcompleter.py, lines 258-276): the name is a sequence of characters,
\* the pattern and str.upper() are computed character by character
MaxName == 3

NameChars == {"a", "b", "s", "A", "_", "2", "$", "-", "\n"}

NameTexts == UNION {[1..n -> NameChars] : n \in 0..MaxName}

\* the words of SQLCompleter.keywords and the entries of
\* SQLCompleter.functions that can be spelled with NameChars
reserved_word_texts == {<<"A", "S">>}
function_texts == {<<"A", "B", "S">>}

UpperChar(ch) ==
    CASE ch = "a" -> "A" [] ch = "b" -> "B" [] ch = "s" -> "S" [] OTHER -> ch

\* str.upper()
upper(s) == [k \in DOMAIN s |-> UpperChar(s[k])]

IsLetter(ch) == ch \in {"a", "b", "s", "A", "B", "S"}

\* name_pattern.match(name) for ^[_a-zA-Z][_a-zA-Z0-9\$]*$ : the $ of a
\* Python pattern also matches before a newline that ends the text
name_pattern(name) ==
    LET t == IF name # <<>> /\ name[Len(name)] = "\n"
             THEN SubSeq(name, 1, Len(name) - 1) ELSE name
    IN /\ t # <<>>
       /\ IsLetter(t[1]) \/ t[1] = "_"
       /\ \A k \in 2..Len(t) : IsLetter(t[k]) \/ IsDigit(t[k]) \/ t[k] \in {"_", "$"}

escape_name_text(name) ==
    IF name # <<>> /\ (~name_pattern(name)
                        \/ upper(name) \in reserved_word_texts
                        \/ upper(name) \in function_texts)
    THEN <<Backtick>> \o name \o <<Backtick>>
    ELSE name

EscapeName ==
    \E name \in NameTexts :
        asked' = [args |-> <<name>>, returned |-> escape_name_text(name)]

NextEscape == EscapeName /\ UNCHANGED asked_frame

InitEscape ==
    /\ RefreshIdle
    /\ COMMANDS = <<>>
    /\ sql = <<>>
    /\ last_exec = Outcome(<<>>, <<>>, None, <<>>)
    /\ OtherIdle

SpecEscape == InitEscape /\ [][NextEscape]_vars

\* ------------------------------------- SQLCompleter.find_matches
\* (sqlcompleter.py, lines 393-442)
MaxCandidates == 3

\* last_word(text): the part of the text after its last blank
RECURSIVE last_word(_)
last_word(text) ==
    IF text = <<>> \/ text[Len(text)] \in Whitespace THEN <<>>
    ELSE Append(last_word(SubSeq(text, 1, Len(text) - 1)), text[Len(text)])

\* where the pattern c1.*?c2.*?...cn ends when c_k.. is matched from pos on:
\* every .*? takes as little as it can; 0 when there is no match
RECURSIVE MatchEnd(_, _, _, _)
MatchEnd(word, item, k, pos) ==
    IF k > Len(word) THEN pos - 1
    ELSE LET j == Find(item, word[k], pos)
         IN IF j = 0 THEN 0 ELSE MatchEnd(word, item, k + 1, j + 1)

\* pat.search(item) for the pattern made of the characters of word: <<>>
\* for None, or <<len(r.group()), r.start()>> of the leftmost match
pat_search(word, item) ==
    IF word = <<>> THEN <<0, 0>>
    ELSE LET starts == {p \in DOMAIN item :
                           item[p] = word[1] /\ MatchEnd(word, item, 2, p + 1) # 0}
         IN IF starts = {} THEN <<>>
            ELSE LET p == CHOOSE m \in starts : \A n \in starts : m <= n
                 IN <<MatchEnd(word, item, 2, p + 1) - p + 1, p - 1>>

\* str.find(sub, 0, limit): the offset of the first occurrence of sub that
\* ends at limit at the latest, -1 when there is none; limit -1 is for None
str_find(s, sub, limit) ==
    LET last == IF limit = -1 \/ limit > Len(s) THEN Len(s) ELSE limit
        at == {p \in 1..(last - Len(sub) + 1) : SubSeq(s, p, p + Len(sub) - 1) = sub}
    IN IF at = {} THEN -1 ELSE (CHOOSE m \in at : \A n \in at : m <= n) - 1

sorted_completions_as_supplied(completions) == completions

\* x < y for two (length, offset, item) tuples
TupleLess(x, y) ==
    \/ x[1] < y[1]
    \/ x[1] = y[1] /\ x[2] < y[2]
    \/ x[1] = y[1] /\ x[2] = y[2] /\ StrLess(x[3], y[3])

\* sorted(completions)
RECURSIVE sorted_completions(_)
sorted_completions(completions) ==
    IF completions = <<>> THEN <<>>
    ELSE LET m == CHOOSE k \in DOMAIN completions :
                      /\ \A j \in DOMAIN completions : ~TupleLess(completions[j], completions[k])
                      /\ \A j \in 1..(k - 1) : TupleLess(completions[k], completions[j])
             rest == [j \in 1..(Len(completions) - 1) |->
                         IF j < m THEN completions[j] ELSE completions[j + 1]]
         IN <<completions[m]>> \o sorted_completions(rest)

\* sorted(collection)
sorted_items(collection) ==
    LET keyed == sorted_completions([k \in DOMAIN collection |-> <<0, 0, collection[k]>>])
    IN [k \in DOMAIN keyed |-> keyed[k][3]]

\* the loop over sorted(collection) from item k on: the list completions
RECURSIVE MatchLoop(_, _, _, _, _)
MatchLoop(text, items, start_only, fuzzy, k) ==
    IF k > Len(items) THEN <<>>
    ELSE LET item == items[k]
             r == pat_search(text, lower(item))
             match_point == str_find(lower(item), text,
                                     IF start_only THEN Len(text) ELSE -1)
             found == IF fuzzy
                      THEN (IF r # <<>> THEN <<<<r[1], r[2], item>>>> ELSE <<>>)
                      ELSE (IF match_point >= 0 THEN <<<<Len(text), match_point, item>>>>
                            ELSE <<>>)
         IN found \o MatchLoop(text, items, start_only, fuzzy, k + 1)

IsLower(ch) == ch \in {"a", "b", "o", "q", "u", "x", "y", "s", "e"}

apply_case(casing, kw) ==
    IF casing = None THEN kw ELSE IF casing = "upper" THEN upper(kw) ELSE lower(kw)

\* the texts of the Completions returned, in their order
find_matches(text, collection, start_only, fuzzy, casing) ==
    LET last == last_word(text)
        completions == MatchLoop(lower(last), sorted_items(collection), start_only, fuzzy, 1)
        case == IF casing = "auto"
                THEN (IF last # <<>> /\ IsLower(last[Len(last)]) THEN "lower" ELSE "upper")
                ELSE casing
        ordered == sorted_completions(completions)
    IN [k \in DOMAIN ordered |-> apply_case(case, ordered[k][3])]

\* the words typed and the candidates
Words == {<<>>, <<"a", "b">>, <<"x", " ", "A", "B">>}

Candidates ==
    {<<"a", "b">>, <<"A", "b">>, <<"x", "a", "b">>, <<"a", "x", "b">>, <<"o">>, <<"u">>}

Collections == UNION {[1..n -> Candidates] : n \in 0..MaxCandidates}

\* the two ways get_completions calls find_matches: fuzzy with the
\* candidates as they are, or from the start of the candidate with the
\* keyword casing
FindFuzzy ==
    \E text \in Words, collection \in Collections :
        asked' = [args |-> <<text, collection, FALSE, TRUE, None>>,
                  returned |-> find_matches(text, collection, FALSE, TRUE, None)]

FindFromStart ==
    \E text \in Words, collection \in Collections, casing \in {"upper", "lower", "auto"} :
        /\ Len(collection) <= 1
        /\ asked' = [args |-> <<text, collection, TRUE, FALSE, casing>>,
                     returned |-> find_matches(text, collection, TRUE, FALSE, casing)]

NextFind ==
    \/ (FindFuzzy /\ UNCHANGED asked_frame)
    \/ (FindFromStart /\ UNCHANGED asked_frame)

SpecFind == InitEscape /\ [][NextFind]_vars

\* ------------------------- SQLCompleter.get_completions, columns
\* (sqlcompleter.py, lines 456-467; completion_refresher.py, lines 119-130)
MaxScoped == 3

\* what the database holds: the columns of each of its relations, none
\* when the relation is not there; f is a name that is never a relation
Relations == {"f", "t", "u"}
Columns == {"a", "x"}
DatabaseContents == [{"t", "u"} -> SUBSET Columns]

\* executor.table_columns(): (tableName, columnName) rows, ordered by both
RowsOf(db, relname) ==
    (IF "a" \in db[relname] THEN << <<relname, "a">> >> ELSE <<>>)
    \o (IF "x" \in db[relname] THEN << <<relname, "x">> >> ELSE <<>>)

table_columns(db) == RowsOf(db, "t") \o RowsOf(db, "u")

\* a name as the text find_matches searches in
Text(name) == <<name>>

\* [col for (col, count) in Counter(scoped_cols).items() if count > 1 and
\* col != "*"]: a Counter keeps its keys in the order they first came
drop_unique_any(scoped_cols) ==
    LET first == {k \in DOMAIN scoped_cols : \A j \in 1..(k - 1) : scoped_cols[j] # scoped_cols[k]}
        Keep(k) == k \in first /\ scoped_cols[k] # "*"
        Place(k) == Cardinality({j \in 1..k : Keep(j)})
        kept == {k \in DOMAIN scoped_cols : Keep(k)}
    IN [n \in 1..Cardinality(kept) |-> scoped_cols[CHOOSE k \in kept : Place(k) = n]]

drop_unique(scoped_cols) ==
    LET count(col) == Cardinality({j \in DOMAIN scoped_cols : scoped_cols[j] = col})
        first == {k \in DOMAIN scoped_cols : \A j \in 1..(k - 1) : scoped_cols[j] # scoped_cols[k]}
        Keep(k) == k \in first /\ count(scoped_cols[k]) > 1 /\ scoped_cols[k] # "*"
        Place(k) == Cardinality({j \in 1..k : Keep(j)})
        kept == {k \in DOMAIN scoped_cols : Keep(k)}
    IN [n \in 1..Cardinality(kept) |-> scoped_cols[CHOOSE k \in kept : Place(k) = n]]

\* get_completions for one suggestion of type "column"
get_completions_column(c, word_before_cursor, tables, dropping) ==
    LET all_cols == populate_scoped_cols(c, tables)
        scoped_cols == IF dropping THEN drop_unique(all_cols) ELSE all_cols
    IN find_matches(word_before_cursor,
                    [k \in DOMAIN scoped_cols |-> Text(scoped_cols[k])], FALSE, TRUE, None)

\* the tables in scope: (schema, table, alias) tuples
ScopedTables ==
    UNION {[1..n -> {<<None, r, None>> : r \in Relations}] : n \in 1..MaxScoped}

\* a refresh fills a new completer from what the database holds:
\* refresh_schemata, then refresh_tables; nothing has been asked of the new
\* completer yet
RefreshTables ==
    \E db \in DatabaseContents :
        LET named == refresh_schemata(SQLCompleter(1), "a.db").completer
        IN /\ index' = [completer |-> refresh_tables(named, Src(FALSE, table_columns(db))).completer,
                        raised |-> None]
           /\ asked' = [args |-> <<>>, returned |-> <<>>]

GetCompletionsColumn ==
    \E word \in {<<>>, <<"a">>}, tables \in ScopedTables, dropping \in BOOLEAN :
        asked' = [args |-> <<word, tables, dropping>>,
                  returned |-> get_completions_column(index.completer, word, tables, dropping)]

NextUsing ==
    \/ (RefreshTables /\ UNCHANGED <<refresh_vars, cmd_vars, help_vars, loop_vars, run_vars,
                                    special_vars>>)
    \/ (GetCompletionsColumn /\ UNCHANGED asked_frame)

SpecUsing == InitIndex /\ [][NextUsing]_vars

\* ------------------------------------------- .once: the one-shot output file
\* (packages/special/iocommands.py, lines 366-403; main.py, lines 506-531
\* and 697-719)
MaxLines == 3

\* a component of an input line and the lines main.output is given for it
Component(text, output) == [text |-> text, output |-> output]

OnceText(arg) == Typed(<<".", "o", "n", "c", "e">>, arg)

OnceComponents ==
    {Component(OnceText(<<"f">>), <<>>), Component(OnceText(Denied), <<>>),
     Component(<<"q">>, <<>>), Component(<<"q">>, <<"r">>), Component(<<"q">>, <<"", "r">>)}

\* the input lines: one statement, or two that sqlparse.split separates
OnceLines ==
    {<<c>> : c \in OnceComponents} \cup {<<c, d>> : c \in OnceComponents, d \in OnceComponents}

write_once(s, output) ==
    IF output # "" /\ s.once_file # None
    THEN [s EXCEPT !.once_written = Append(@, [file |-> s.once_file, line |-> Len(s.lines),
                                               output |-> output]),
                   !.written_to_once_file = TRUE]
    ELSE s

\* unset_once_if_written without its test of written_to_once_file
unset_once_always(s) ==
    IF s.once_file # None
    THEN [s EXCEPT !.once_file = None, !.written_to_once_file = FALSE]
    ELSE s

unset_once_if_written(s) ==
    IF s.once_file # None /\ s.written_to_once_file
    THEN [s EXCEPT !.once_file = None, !.written_to_once_file = FALSE]
    ELSE s

\* LiteCli.output: every line of the output goes to write_once
RECURSIVE output(_, _)
output(s, lines) ==
    IF lines = <<>> THEN s ELSE output(write_once(s, Head(lines)), Tail(lines))

\* output_res over the generator SQLExecute.run returns: a component runs
\* when its result is asked for, a special command first, and what it raises
\* ends the line; the result of .once has neither a title nor rows
RECURSIVE output_res(_, _)
output_res(s, res) ==
    IF res = <<>> THEN s
    ELSE LET ran == special_execute(s, Head(res).text)
         IN IF ran.result.raised = CommandNotFound
            THEN output_res(output(s, Head(res).output), Tail(res))
            ELSE IF ran.result.raised # None THEN ran
            ELSE output_res(ran, Tail(res))

one_iteration(s, text) ==
    output_res(unset_once_if_written([s EXCEPT !.lines = Append(@, text)]), text)

OneIteration ==
    /\ Len(special.lines) < MaxLines
    /\ \E text \in OnceLines : special' = one_iteration(special, text)

NextOnce == OneIteration /\ UNCHANGED special_frame

SpecOnce == InitSpecial /\ [][NextOnce]_vars

\* ------------------------------------------- SQLExecute.connect
\* (sqlexecute.py, lines 62-99; main.py, lines 201-218)
MaxConnections == 5

\* self.conn of an executor that is not connected
NoConnection == 0

\* what connect can be given: no argument, an empty text, a file, the
\* database in memory, a file under the home directory, a file in a directory
\* that does not exist, a directory, and file: URIs of a file and of a file
\* in a missing directory
ConnectArgs ==
    {None, "", "a.db", Memory, "~/b.db", "gone/c.db", "dir", "file:a.db", "file:gone/c.db"}

\* urlparse(db).scheme and urlparse(db).path
urlparse(db) ==
    CASE db = "file:a.db" -> [scheme |-> "file", path |-> "a.db"]
      [] db = "file:gone/c.db" -> [scheme |-> "file", path |-> "gone/c.db"]
      [] OTHER -> [scheme |-> "", path |-> db]

expanduser(db) == IF db = "~/b.db" THEN "/home/b.db" ELSE db

\* os.path.exists(os.path.dirname(os.path.abspath(db_filename)))
dirname_exists(db_filename) == db_filename # "gone/c.db"

\* the file sqlite3.connect opens, None when it raises
sqlite3_connect(db_name, uri) ==
    LET file == IF uri THEN urlparse(db_name).path ELSE db_name
    IN IF file \in {"dir", "gone/c.db"} THEN None ELSE file

\* Connection.close() of the connection conn
close_nothing(open, conn) == open

close(open, conn) == {c \in open : c.id # conn}

\* connect(database) on the executor s: [conn, dbname, open, made, raised];
\* open holds the connections that were made and not closed
connect(s, database) ==
    LET db == IF database \notin {None, ""} THEN database ELSE s.dbname
        location == urlparse(db)
        uri == location.scheme = "file"
        db_name == IF uri THEN db ELSE expanduser(db)
        db_filename == IF uri THEN location.path ELSE expanduser(db)
        file == sqlite3_connect(db_name, uri)
    IN IF db = None THEN [s EXCEPT !.raised = None]
       ELSE IF ~uri /\ ~dirname_exists(db_filename)
       THEN [s EXCEPT !.raised = "Exception: Path does not exist"]
       ELSE IF file = None
       THEN [s EXCEPT !.raised = "OperationalError: unable to open database file"]
       ELSE [s EXCEPT !.conn = s.made + 1,
                      !.dbname = db_filename,
                      !.open = IF s.conn # NoConnection
                               THEN close(@, s.conn) \cup {[id |-> s.made + 1, file |-> file]}
                               ELSE @ \cup {[id |-> s.made + 1, file |-> file]},
                      !.made = s.made + 1,
                      !.raised = None]

\* SQLExecute(database), for a database that can be opened
NewSQLExecute(database) ==
    LET s == [conn |-> NoConnection, dbname |-> database, open |-> {}, made |-> 0,
              raised |-> None, database |-> None, status |-> <<>>]
    IN IF database = None THEN s ELSE connect(s, None)

Connect ==
    /\ sqlrun.made < MaxConnections
    /\ \E database \in ConnectArgs :
          sqlrun' = [connect(sqlrun, database) EXCEPT !.database = database, !.status = <<>>]

\* change_db(arg) when its result is asked for: the message follows connect
\* only when connect returned
ChangeDb ==
    /\ sqlrun.made < MaxConnections
    /\ \E arg \in ConnectArgs :
          LET s == connect(sqlrun, arg)
          IN sqlrun' = [s EXCEPT !.database = arg,
                                 !.status = IF s.raised # None THEN <<>>
                                            ELSE <<"You are now connected to database ",
                                                   s.dbname>>]

NextConnect ==
    \/ (Connect /\ UNCHANGED run_frame)
    \/ (ChangeDb /\ UNCHANGED run_frame)

InitConnect ==
    /\ RefreshIdle
    /\ COMMANDS = SessionCommands
    /\ sql = <<>>
    /\ last_exec = Outcome(<<>>, <<>>, None, <<>>)
    /\ help = <<>>
    /\ LoopIdle
    /\ \E database \in {None, "a.db", Memory} : sqlrun = NewSQLExecute(database)
    /\ SpecialIdle
    /\ IndexIdle
    /\ AskedIdle

SpecConnect == InitConnect /\ [][NextConnect]_vars

\* ------------------------------------------------------------ properties
StepNames(pass) == [k \in DOMAIN pass |-> pass[k].name]

\* C1: at most one refresh worker thread is alive at a time; a refresh() call
\* made while is_refreshing() is true creates no worker, only sets the restart
\* flag and returns the single status tuple announcing the restart.
C1_AtMostOneWorker ==
    /\ [](Cardinality(AliveWorkers) <= 1)
    /\ [][(AtRefresh /\ is_refreshing /\ fg' # fg)
            => (fg'.pc = "set_flag" /\ runs' = runs /\ completer_thread' = completer_thread)]_vars
    /\ [][(fg.pc = "set_flag" /\ fg' # fg)
            => (/\ restart_refresh'
                /\ fg'.status = StatusRestarted
                /\ fg'.pc = "idle"
                /\ Len(runs') = Len(runs)
                /\ completer_thread' = completer_thread)]_vars

C1_Witness ==
    /\ fg.status = StatusRestarted
    /\ restart_refresh
    /\ Cardinality(AliveWorkers) = 1
    /\ Len(runs) = 1

\* C2: no restart request is lost: while a restart request is pending, the
\* worker it was addressed to is still before a test of the flag, so that it
\* runs a whole pass after the request before it invokes the callbacks. (A
\* worker that an exception ended is left to C8.)
C2_NoRestartLost ==
    restart_refresh =>
        /\ completer_thread # 0
        /\ runs[completer_thread].pc \in
               {"start", "executor", "step", "is_set", "clear", "raised"}

RECURSIVE SinglePass(_, _, _)
SinglePass(c, pass, k) ==
    IF k > Len(pass) THEN c
    ELSE SinglePass(refresher(pass[k].name, c, pass[k].dbname, pass[k].src).completer,
                    pass, k + 1)

\* C3: the completer handed to the callbacks equals what the steps of its last
\* pass, run once over a freshly created completer, produce.
C3_SinglePassSnapshot ==
    \A r \in DOMAIN runs :
        runs[r].pc \in {"callback", "swap"} =>
            runs[r].completer = SinglePass(SQLCompleter(r + 1), runs[r].pass, 1)

\* C4: callbacks are invoked only after a pass in which every refresher ran,
\* in registration order, with no restart observed since it began; the
\* callbacks are then invoked in list order, each once, all with the completer
\* this invocation created, and _bg_refresh returns only after the last one.
C4_CallbacksOnCompletion ==
    /\ [](\A r \in DOMAIN runs :
            LET run == runs[r]
                list == callbacks_list(run.callbacks)
            IN /\ run.pc \in {"callback", "swap"} =>
                     /\ StepNames(run.pass) = refreshers
                     /\ run.i \in DOMAIN list
                     /\ Len(run.called) = run.i - 1
               /\ run.called # <<>> => run.pc \in {"callback", "swap"}
               /\ \A k \in DOMAIN run.called :
                     run.called[k] = [callback |-> list[k], completer |-> r + 1])
    /\ [][\A r \in DOMAIN runs :
            (runs[r].pc # "done" /\ runs'[r].pc = "done")
                => /\ runs[r].pc \in {"callback", "swap"}
                   /\ runs[r].i = Len(callbacks_list(runs[r].callbacks))]_vars

C4_Witness ==
    \E r \in DOMAIN runs :
        /\ runs[r].pc = "callback"
        /\ Len(runs[r].called) = 1
        /\ fg.status = StatusRestarted

\* what a completed pass leaves in a completer
HasCompletePass(c) ==
    /\ c.databases # <<>>
    /\ c.dbname \in Databases
    /\ \A kind \in DOMAIN c.dbmetadata : c.dbname \in DOMAIN c.dbmetadata[kind]
    /\ c.special_commands # <<>>

\* C5: the live completer is the initial instance, an instance emptied by
\* reset_completions, or one whose refresher pass has completed; no instance
\* that refresher steps still run on is the live one; the reference changes
\* only in _on_completions_refreshed, with _completer_lock held.
C5_LiveCompleterConstructed ==
    /\ [](\/ completer = SQLCompleter(1)
          \/ completer = reset_completions(completer)
          \/ HasCompletePass(completer))
    /\ [](\A r \in DOMAIN runs :
            runs[r].pc \in {"executor", "step", "is_set", "clear"}
                => runs[r].completer.id # completer.id)
    /\ [][completer'.id # completer.id
            => \E r \in DOMAIN runs :
                  /\ runs[r].pc = "swap"
                  /\ completer_lock = runs[r].thread
                  /\ completer' = runs[r].completer]_vars

C5_Witness ==
    /\ completer.id > 1
    /\ HasCompletePass(completer)
    /\ \E r \in DOMAIN runs : runs[r].pc = "step" /\ runs[r].completer.databases # <<>>

\* C6: once refresh() has been called for the database the session switched
\* to, no completer built from an earlier database is installed as the live
\* one: an installed completer is built from the database of the last
\* refresh() call, or from the one the session is connected to now.
C6_NoOlderSnapshot ==
    [][completer'.id # completer.id
         => completer'.dbname \in {fg.refresh_dbname, sqlexecute_dbname}]_vars

\* C7: a worker thread never queries the session's own SQLExecute; that one
\* is used only by a synchronous refresh of a :memory: database.
C7_WorkerOwnConnection ==
    \A r \in DOMAIN runs :
        runs[r].executor = "session" =>
            /\ runs[r].thread = MainThread
            /\ sqlexecute_dbname = Memory

\* C8: a metadata source that raises never ends the refresh: no invocation of
\* _bg_refresh ends by an exception, and none reaches the session.
C8_SourceFailureTolerated ==
    /\ \A r \in DOMAIN runs : runs[r].pc # "raised"
    /\ fg.status # StatusRaised

\* ---- the dispatcher
\* the entry registered under the exact key if there is one, else the one
\* under the lower-cased key
EntryFor(commands, token) ==
    IF HasKey(commands, token) THEN Lookup(commands, token)
    ELSE Lookup(commands, lower(token))

C9_Post(commands, text, out) ==
    LET token == parse_special_command(text)[1]
        exact == HasKey(commands, token)
        low == HasKey(commands, lower(token))
        not_found == \/ ~exact /\ ~low
                     \/ ~exact /\ low /\ Lookup(commands, lower(token)).case_sensitive
    IN IF not_found
       THEN out.raised = CommandNotFound /\ out.calls = <<>>
       ELSE /\ out.raised = None
            /\ Len(out.calls) = 1
            /\ out.calls[1].handler = EntryFor(commands, token).handler

C9_KnownTypePost(commands, text, out) ==
    LET token == parse_special_command(text)[1]
        exact == HasKey(commands, token)
        low == HasKey(commands, lower(token))
        not_found == \/ ~exact /\ ~low
                     \/ ~exact /\ low /\ Lookup(commands, lower(token)).case_sensitive
    IN IF not_found
       THEN out.raised = CommandNotFound /\ out.calls = <<>>
       ELSE IF EntryFor(commands, token).arg_type \notin {NO_QUERY, PARSED_QUERY, RAW_QUERY}
       THEN out.raised = CommandNotFound /\ out.calls = <<>>
       ELSE /\ out.raised = None
            /\ Len(out.calls) = 1
            /\ out.calls[1].handler = EntryFor(commands, token).handler

FirstSpace(text) ==
    IF Contains(text, " ")
    THEN CHOOSE k \in DOMAIN text : text[k] = " " /\ \A j \in 1..(k - 1) : text[j] # " "
    ELSE Len(text) + 1

CommandToken(text) == SubSeq(text, 1, FirstSpace(text) - 1)

Remainder(text) == SubSeq(text, FirstSpace(text) + 1, Len(text))

\* the text without the whitespace around it
Trimmed(text) ==
    LET inked == {k \in DOMAIN text : text[k] \notin Whitespace}
    IN IF inked = {} THEN <<>>
       ELSE SubSeq(text, CHOOSE k \in inked : \A j \in inked : k <= j,
                         CHOOSE k \in inked : \A j \in inked : k >= j)

\* the text up to the first whitespace character, and the text after it
FirstWhitespace(text) ==
    IF \E k \in DOMAIN text : text[k] \in Whitespace
    THEN CHOOSE k \in DOMAIN text :
            text[k] \in Whitespace /\ \A j \in 1..(k - 1) : text[j] \notin Whitespace
    ELSE Len(text) + 1

\* the text without the '+' and '-' characters around it
Unsigned(text) ==
    LET inner == {k \in DOMAIN text : text[k] \notin {"+", "-"}}
    IN IF inner = {} THEN <<>>
       ELSE SubSeq(text, CHOOSE k \in inner : \A j \in inner : k <= j,
                         CHOOSE k \in inner : \A j \in inner : k >= j)

VerbosityOf(token) ==
    IF Contains(token, "+") THEN VERBOSE
    ELSE IF Contains(token, "-") THEN SUCCINCT
    ELSE NORMAL

\* C11 as the specification states it: parse_special_command splits the text
\* at the first whitespace character into a token and a remainder; verbosity
\* is VERBOSE if the token holds '+', else SUCCINCT if it holds '-', else
\* NORMAL; the command is the token without its leading and trailing '+' and
\* '-'; the argument is the remainder without the whitespace around it.
C11_ParseAtWhitespace ==
    [][last_exec' # last_exec =>
          LET token == SubSeq(sql, 1, FirstWhitespace(sql) - 1)
              rest == SubSeq(sql, FirstWhitespace(sql) + 1, Len(sql))
          IN last_exec'.parsed = <<Unsigned(token), VerbosityOf(token), Trimmed(rest)>>]_vars

\* C11, amended: parse_special_command splits the text at the first space
\* character, so any other whitespace stays in the token; verbosity is VERBOSE
\* if the token holds '+', else SUCCINCT if it holds '-', else NORMAL; the
\* command is the token without the whitespace around it and then without the
\* leading and trailing '+' and '-' of what is left; the argument is the
\* remainder without the whitespace around it.
C11_ParseAtSpace ==
    [][last_exec' # last_exec =>
          last_exec'.parsed = <<Unsigned(Trimmed(CommandToken(sql))),
                                VerbosityOf(CommandToken(sql)),
                                Trimmed(Remainder(sql))>>]_vars

C11_Witness ==
    /\ last_exec.sql = sql
    /\ last_exec.parsed # <<>>
    /\ Contains(last_exec.parsed[1], "\t")
    /\ last_exec.parsed[2] = VERBOSE

C10_Post(commands, text, out) ==
    out.calls # <<>> =>
        LET entry == EntryFor(commands, parse_special_command(text)[1])
            call == out.calls[1]
        IN /\ Len(out.calls) = 1
           /\ entry.arg_type \in {NO_QUERY, PARSED_QUERY, RAW_QUERY}
           /\ entry.arg_type = NO_QUERY => call.given = {}
           /\ entry.arg_type = PARSED_QUERY =>
                 /\ call.given = {"cur", "arg", "verbose"}
                 /\ call.cur = "cur"
                 /\ call.arg = Trimmed(Remainder(text))
                 /\ call.verbose = Contains(CommandToken(text), "+")
           /\ entry.arg_type = RAW_QUERY =>
                 /\ call.given = {"cur", "query"}
                 /\ call.cur = "cur"
                 /\ call.query = text

\* C10: execute calls the handler by the convention of the arg_type of its
\* entry: NO_QUERY with no argument; PARSED_QUERY with cur, arg the stripped
\* text after the command token and verbose iff the token holds a '+';
\* RAW_QUERY with cur and query the whole text.
C10_CallingConvention ==
    [][last_exec' # last_exec => C10_Post(COMMANDS, sql, last_exec')]_vars

C10_Witness ==
    /\ last_exec = execute(COMMANDS, "cur", sql)
    /\ Len(last_exec.calls) = 1
    /\ last_exec.calls[1].given = {"cur", "arg", "verbose"}
    /\ last_exec.calls[1].verbose
    /\ EntryFor(COMMANDS, parse_special_command(sql)[1]).arg_type = PARSED_QUERY

\* the key a name is registered under
KeyOf(reg, name) == IF reg.case_sensitive THEN name ELSE lower(name)

NamesOf(reg) == {reg.command} \cup {reg.aliases[k] : k \in DOMAIN reg.aliases}

\* execute(name) calls the handler of reg by the convention of its arg_type
CallsHandlerOf(reg, commands, name) ==
    LET out == execute(commands, "cur", name)
    IN /\ out.raised = None
       /\ Len(out.calls) = 1
       /\ out.calls[1].handler = reg.handler
       /\ out.calls[1].given = (IF reg.arg_type = NO_QUERY THEN {} ELSE {"cur", "query"})

AliasesHidden(reg, commands) ==
    \A k \in DOMAIN reg.aliases : Lookup(commands, KeyOf(reg, reg.aliases[k])).hidden

\* the listing has one row per entry that is not hidden, in the order of the keys
ListsVisible(commands, rows) ==
    LET vis == {k \in DOMAIN commands : ~commands[k].value.hidden}
    IN /\ Len(rows) = Cardinality(vis)
       /\ \E f \in [DOMAIN rows -> vis] :
             /\ \A i, j \in DOMAIN rows :
                   i < j => StrLess(commands[f[i]].key, commands[f[j]].key)
             /\ \A i \in DOMAIN rows :
                   rows[i] = <<commands[f[i]].value.command, commands[f[i]].value.shortcut,
                               commands[f[i]].value.description>>

C13_LoopEndsOnlyOnQuit ==
    /\ loop.pc # "crashed"
    /\ loop.pc = "goodbye" =>
          \/ loop.at = "prompt"
          \/ loop.at = "run" /\ loop.text = "quit"

\* the commands of the allow-list, as command tokens
AllowListed ==
    {<<".", "o", "p", "e", "n">>, <<"u", "s", "e">>, <<"\\", "u">>, <<"\\", "?">>,
     <<"\\", "q">>, <<"h", "e", "l", "p">>, <<"e", "x", "i", "t">>, <<"q", "u", "i", "t">>}

\* C14: with no connection, every sub-statement whose command is not one of
\* the allow-listed ones ends run() with the 'Not connected to database.'
\* OperationalError and with no other error, before a handler or SQL ran for it.
C14_NotConnectedFirst ==
    \A k \in DOMAIN sqlrun.trace :
        LET h == sqlrun.trace[k]
        IN (~h.conn /\ lower(parse_special_command(h.sql)[1]) \notin AllowListed)
              => h.raised = NotConnected /\ h.ran = <<>>

\* ---- C15
\* the argument contracts the commands document: a file name for .once and
\* .output, "filename table" for .import, one path for .load, a command
\* for \pipe_once
CommandOf(text) == parse_special_command(text)[1]

ArgumentOf(text) == parse_special_command(text)[3]

ContractFails(text) ==
    LET words == shlex_split(ArgumentOf(text))
    IN \/ CommandOf(text) \in {<<".", "o", "n", "c", "e">>, <<".", "o", "u", "t", "p", "u", "t">>}
          /\ words = <<>>
       \/ CommandOf(text) = <<".", "i", "m", "p", "o", "r", "t">> /\ Len(words) # 2
       \/ CommandOf(text) = <<".", "l", "o", "a", "d">> /\ Len(words) # 1
       \/ CommandOf(text) = <<"\\", "p", "i", "p", "e", "_", "o", "n", "c", "e">>
          /\ words = <<>>

ContractError(text) ==
    CASE CommandOf(text) = <<".", "i", "m", "p", "o", "r", "t">> ->
            TypeError("Usage: .import filename table")
      [] CommandOf(text) = <<".", "l", "o", "a", "d">> ->
            TypeError(".load accepts exactly one path")
      [] CommandOf(text) = <<"\\", "p", "i", "p", "e", "_", "o", "n", "c", "e">> ->
            OSError("pipe_once requires a command")
      [] OTHER -> TypeError("You must provide a filename.")

HasStatus(results) ==
    \E k \in DOMAIN results : results[k][4] # None /\ results[k][4] # <<>>

\* C15 as stated: a command whose argument fails its contract makes execute
\* return a result tuple that carries a status message, and execute does
\* not raise.
C15_ContractFailureIsStatus ==
    ContractFails(special.text) =>
        /\ special.result.raised = None
        /\ special.result.results # None
        /\ HasStatus(special.result.results)

\* C15 amended: a command whose argument fails its contract makes execute
\* raise TypeError (OSError for \pipe_once) with the message that names
\* the contract; no result tuple is returned, no statement is run, and the
\* redirections and the favorite queries stay as they were.
C15_ContractFailureRaises ==
    [][ContractFails(special'.text) =>
          /\ special'.result = HandlerResult(ContractError(special'.text), <<>>, <<>>)
          /\ special'.once_file = special.once_file
          /\ special'.tee_file = special.tee_file
          /\ special'.pipe_once_process = special.pipe_once_process
          /\ special'.favorites = special.favorites]_vars

C15_Witness ==
    /\ ContractFails(special.text)
    /\ CommandOf(special.text) = <<".", "o", "n", "c", "e">>
    /\ special.result.raised = TypeError("You must provide a filename.")
    /\ special.once_file # None
    /\ special.pipe_once_process # None

\* ---- C16
\* the last command was \f (or \f+) on a stored favorite query
RunName(text) == partition(ArgumentOf(text), " ")[1]

RunArgs(text) == shlex_split(partition(ArgumentOf(text), " ")[3])

RanFavorite(s) ==
    /\ CommandOf(s.text) = <<"\\", "f">>
    /\ HasKey(s.favorites, RunName(s.text))

RanQuery(s) == Lookup(s.favorites, RunName(s.text))

\* the favorite query holds the ? marker, once, and no other marker
QuestionQuery(s) ==
    /\ RanFavorite(s)
    /\ Placeholders(RanQuery(s)) = 1
    /\ ~In(<<"$">>, RanQuery(s))

\* the statement ran once, with the argument in the marker's place: bound
\* to it, or written into the text
SubstitutedOnce(s) ==
    /\ s.result.raised = None
    /\ \/ s.result.executed = << <<RanQuery(s), RunArgs(s.text)>> >>
       \/ s.result.executed =
              << <<replace(RanQuery(s), <<"?">>, RunArgs(s.text)[1], 1), <<>>>> >>

MarkersOf(query) == {i \in DOMAIN DigitChars : In(<<"$">> \o str(i), query)}

\* the favorite query run has the markers $1..$n and no ? marker
ShellQuery(s) ==
    /\ RanFavorite(s)
    /\ ~In(<<"?">>, RanQuery(s))
    /\ MarkersOf(RanQuery(s)) = 1..Cardinality(MarkersOf(RanQuery(s)))

\* the query with every $i replaced by argument i, in one pass over the
\* query text (i < 10)
RECURSIVE Fill(_, _)
Fill(query, args) ==
    IF query = <<>> THEN <<>>
    ELSE IF Head(query) = "$" /\ Len(query) > 1 /\ IsDigit(query[2])
    THEN LET i == CHOOSE n \in DOMAIN DigitChars : DigitChars[n] = query[2]
         IN args[i] \o Fill(SubSeq(query, 3, Len(query)), args)
    ELSE <<Head(query)>> \o Fill(Tail(query), args)

\* C17: for markers $1..$n and k arguments, k = n executes the query with
\* every $i replaced by argument i; k < n yields only the status "missing
\* substitution for $j" of an unfilled marker; k > n yields only the "Too
\* many arguments" status; the error cases execute nothing.
C17_SubstitutionByCount ==
    ShellQuery(special) =>
        LET n == Cardinality(MarkersOf(RanQuery(special)))
            args == RunArgs(special.text)
            k == Len(args)
            r == special.result
        IN /\ r.raised = None
           /\ k = n => r.executed = << <<Fill(RanQuery(special), args), <<>>>> >>
           /\ k < n => /\ r.executed = <<>>
                        /\ Len(r.results) = 1
                        /\ r.results[1][4] # None
                        /\ r.results[1][4][1] = "missing substitution for "
                        /\ \E j \in (k + 1)..n : r.results[1][4][2] = <<"$">> \o str(j)
           /\ k > n => /\ r.executed = <<>>
                        /\ Len(r.results) = 1
                        /\ r.results[1][4] # None
                        /\ r.results[1][4][1] = TooManyArguments(<<>>)[1]

\* ---- C18
NameOf(arg) == partition(arg, " ")[1]

QueryOf(arg) == partition(arg, " ")[3]

OthersKept(before, after, name) ==
    \A k \in DOMAIN before \cup DOMAIN after :
        /\ k \in DOMAIN before /\ before[k].key # name =>
               favoritequeries_get(after, before[k].key) = before[k].value
        /\ k \in DOMAIN after /\ after[k].key # name =>
               favoritequeries_get(before, after[k].key) = after[k].value

StatusIs(s, status) == s.result = HandlerResult(None, <<StatusOnly(status)>>, <<>>)

\* what one \fs or \fd command does to the stored queries
SaveDeleteStep(before, after) ==
    LET arg == ArgumentOf(after.text)
        command == CommandOf(after.text)
    IN /\ (command = <<"\\", "f", "s">> /\ arg # <<>> /\ QueryOf(arg) # <<>>) =>
             /\ StatusIs(after, <<"Saved.">>)
             /\ favoritequeries_get(after.favorites, NameOf(arg)) = QueryOf(arg)
             /\ \E k \in DOMAIN after.favorites :
                    favoritequeries_list(after.favorites)[k] = NameOf(arg)
             /\ OthersKept(before.favorites, after.favorites, NameOf(arg))
       /\ (command = <<"\\", "f", "s">> /\ (arg = <<>> \/ QueryOf(arg) = <<>>)) =>
             /\ after.result.raised = None
             /\ Len(after.result.results) = 1
             /\ after.result.results[1][4][1] = "Syntax: \\fs name query.\n\n"
             /\ after.result.results[1][4][2] = favoritequeries_usage
             /\ after.favorites = before.favorites
       /\ (command = <<"\\", "f", "d">> /\ HasKey(before.favorites, arg)) =>
             /\ StatusIs(after, <<arg, ": Deleted">>)
             /\ favoritequeries_get(after.favorites, arg) = None
             /\ OthersKept(before.favorites, after.favorites, arg)
       /\ (command = <<"\\", "f", "d">> /\ arg # <<>> /\ ~HasKey(before.favorites, arg)) =>
             /\ StatusIs(after, <<arg, ": Not Found.">>)
             /\ after.favorites = before.favorites

\* C18: under any sequence of \fs and \fd the favorite queries are a map
\* from name to text: \fs name query answers "Saved." and stores exactly
\* that text under the name, replacing an earlier one; \fd of a stored
\* name answers "<name>: Deleted" and removes it; \fd of an absent name
\* answers "<name>: Not Found." and \fs without both name and query
\* answers the usage text, both leaving every stored query as it was.
C18_FavoritesAreAMap == [][SaveDeleteStep(special, special')]_vars

\* q, stored before r, has just been saved again with another text
C18_Witness ==
    /\ CommandOf(special.text) = <<"\\", "f", "s">>
    /\ StatusIs(special, <<"Saved.">>)
    /\ Len(special.favorites) = 2
    /\ special.favorites[1].key = NameOf(ArgumentOf(special.text))
    /\ special.favorites[1].value = QueryOf(ArgumentOf(special.text))
    /\ special.favorites[1].value = <<"$", "1", " ", "$", "2">>

\* ---- C19
\* the round trip on the completer c: the completer it leaves, and what it
\* raises
RoundTrip(c) ==
    LET c1 == reset_completions(c)
        c2 == extend_relations(c1, << <<"t">> >>, "tables")
    IN [completer |-> extend_columns(c2, << <<"t", "a">> >>, "tables"),
        raised |-> extend_columns_raises(c2, << <<"t", "a">> >>, "tables")]

\* every name held in the index of c
IndexedNames(c) ==
    SeqToSet(c.databases)
    \cup UNION {DOMAIN c.dbmetadata[kind][d] :
                  kind \in RelationKinds, d \in DOMAIN c.dbmetadata.tables}
    \cup UNION {UNION {SeqToSet(c.dbmetadata[kind][d][r]) : r \in DOMAIN c.dbmetadata[kind][d]} :
                  kind \in RelationKinds, d \in DOMAIN c.dbmetadata.tables}

\* C19: on any completer, reset_completions(), extend_relations([("t",)],
\* "tables") and extend_columns([("t", "a")], "tables") raise nothing, and
\* the columns then found for table t are "*" and "a" and nothing else; no
\* database, relation or column name from before the reset is left.
C19_RoundTrip ==
    LET after == RoundTrip(index.completer)
    IN /\ after.raised = None
       /\ SeqToSet(populate_scoped_cols(after.completer, << <<None, "t", None>> >>)) = {"*", "a"}
       /\ IndexedNames(after.completer) \subseteq {"t", "*", "a"}

\* ---- C20
\* the calls of the builders, and a call applied to a completer
BuilderCalls ==
    {<<"extend_database_names", databases>> : databases \in DatabaseLists}
    \cup {<<"extend_schemata", name>> : name \in SchemaNames}
    \cup {<<"extend_relations", data, kind>> : data \in RelationLists, kind \in RelationKinds}
    \cup {<<"extend_columns", data, kind>> : data \in ColumnLists, kind \in RelationKinds}
    \cup {<<"extend_functions", rows>> : rows \in FunctionLists}
    \cup {<<"extend_special_commands", commands>> : commands \in CommandLists}

Apply(c, call) ==
    CASE call[1] = "extend_database_names" -> extend_database_names(c, call[2])
      [] call[1] = "extend_schemata" -> extend_schemata(c, call[2])
      [] call[1] = "extend_relations" -> extend_relations(c, call[2], call[3])
      [] call[1] = "extend_columns" -> extend_columns(c, call[2], call[3])
      [] call[1] = "extend_functions" -> extend_functions(c, [raises |-> FALSE, rows |-> call[2]])
      [] call[1] = "extend_special_commands" -> extend_special_commands(c, call[2])

\* every name of the index of c is in the index of d
Keeps(c, d) ==
    /\ SeqToSet(c.databases) \subseteq SeqToSet(d.databases)
    /\ SeqToSet(c.special_commands) \subseteq SeqToSet(d.special_commands)
    /\ c.all_completions \subseteq d.all_completions
    /\ \A kind \in DOMAIN c.dbmetadata : \A s \in DOMAIN c.dbmetadata[kind] :
           /\ s \in DOMAIN d.dbmetadata[kind]
           /\ DOMAIN c.dbmetadata[kind][s] \subseteq DOMAIN d.dbmetadata[kind][s]

\* C20: every extend_* builder is additive and idempotent by key: a call
\* applied twice in a row leaves the completer as the call applied once
\* leaves it, and no call removes a name that an earlier call added.
C20_BuildersIdempotent ==
    \A call \in BuilderCalls :
        /\ Apply(Apply(index.completer, call), call) = Apply(index.completer, call)
        /\ Keeps(index.completer, Apply(index.completer, call))

\* ---- C21
\* the text is [A-Za-z_][A-Za-z0-9_$]* from its first character to its last
PlainIdentifier(name) ==
    /\ name # <<>>
    /\ IsLetter(name[1]) \/ name[1] = "_"
    /\ \A k \in 2..Len(name) : IsLetter(name[k]) \/ IsDigit(name[k]) \/ name[k] \in {"_", "$"}

\* a reserved word or a function name, whatever the case of its letters
ReservedName(name) ==
    \E word \in reserved_word_texts \cup function_texts :
        /\ Len(word) = Len(name)
        /\ \A k \in DOMAIN name : UpperChar(name[k]) = UpperChar(word[k])

\* C21: escape_name returns the identifier unchanged when it matches
\* [A-Za-z_][A-Za-z0-9_$]* and is neither a reserved word nor a function
\* name, whatever the case; it returns every other identifier wrapped in
\* backticks.
C21_EscapeByPattern ==
    asked.args # <<>> =>
        LET name == asked.args[1]
        IN IF PlainIdentifier(name) /\ ~ReservedName(name)
           THEN asked.returned = name
           ELSE asked.returned = <<Backtick>> \o name \o <<Backtick>>

\* the characters of word are found in item in their order, not
\* necessarily side by side
IsSubsequence(word, item) ==
    \E f \in [DOMAIN word -> DOMAIN item] :
        /\ \A k \in DOMAIN word : item[f[k]] = word[k]
        /\ \A j, k \in DOMAIN word : j < k => f[j] < f[k]

\* the span of the match of word in item: it starts at the first place
\* from which the word can be found and ends as early as it can from there
SpanStart(word, item) ==
    IF word = <<>> THEN 0
    ELSE (CHOOSE p \in DOMAIN item :
              /\ item[p] = word[1] /\ IsSubsequence(word, SubSeq(item, p, Len(item)))
              /\ \A q \in 1..(p - 1) :
                     ~(item[q] = word[1] /\ IsSubsequence(word, SubSeq(item, q, Len(item))))) - 1

SpanLength(word, item) ==
    IF word = <<>> THEN 0
    ELSE LET p == SpanStart(word, item) + 1
         IN CHOOSE n \in 1..Len(item) :
                /\ IsSubsequence(word, SubSeq(item, p, p + n - 1))
                /\ \A m \in 1..(n - 1) : ~IsSubsequence(word, SubSeq(item, p, p + m - 1))

FuzzyCall == asked.args # <<>> /\ Len(asked.args) = 5 /\ asked.args[4] = TRUE

Occurrences(seq, x) == Cardinality({k \in DOMAIN seq : seq[k] = x})

Reorderings(seq) ==
    {[k \in DOMAIN seq |-> seq[f[k]]] :
        f \in {g \in [DOMAIN seq -> DOMAIN seq] : \A i, j \in DOMAIN seq : g[i] = g[j] => i = j}}

\* C22: a fuzzy find_matches returns exactly the candidates that hold the
\* characters of the last word of the input, without regard to case, in
\* their order; they come by the length of the matched span, then by where
\* it starts, then by the candidate itself; and the order in which the
\* candidates were supplied changes nothing
C22_FuzzyMatchesOrdered ==
    FuzzyCall =>
        LET word == lower(last_word(asked.args[1]))
            collection == asked.args[2]
            returned == asked.returned
        IN /\ \A item \in Candidates :
                  Occurrences(returned, item) =
                      IF IsSubsequence(word, lower(item))
                      THEN Occurrences(collection, item) ELSE 0
           /\ \A k \in 1..(Len(returned) - 1) :
                  LET x == returned[k]
                      y == returned[k + 1]
                      lx == SpanLength(word, lower(x))
                      ly == SpanLength(word, lower(y))
                      sx == SpanStart(word, lower(x))
                      sy == SpanStart(word, lower(y))
                  IN \/ lx < ly
                     \/ lx = ly /\ sx < sy
                     \/ lx = ly /\ sx = sy /\ (x = y \/ StrLess(x, y))
           /\ \A other \in Reorderings(collection) :
                  find_matches(asked.args[1], other, FALSE, TRUE, None) = returned

\* the aliases u then o are offered as o, u; and a candidate with a shorter
\* span comes before one whose span starts earlier
C22_Witness ==
    /\ FuzzyCall
    /\ \/ asked.args[2] = <<<<"u">>, <<"o">>>> /\ asked.returned = <<<<"o">>, <<"u">>>>
       \/ /\ asked.args[1] = <<"a", "b">>
          /\ asked.args[2] = <<<<"a", "x", "b">>, <<"x", "a", "b">>, <<"o">>>>
          /\ asked.returned = <<<<"x", "a", "b">>, <<"a", "x", "b">>>>

\* the columns the completer knows of a relation
ColumnsKnown(c, relname) ==
    IF c.dbname \in DOMAIN c.dbmetadata.tables /\ relname \in DOMAIN c.dbmetadata.tables[c.dbname]
    THEN SeqToSet(c.dbmetadata.tables[c.dbname][relname]) \ {"*"}
    ELSE {}

UsingCall == Len(asked.args) = 3 /\ asked.args[3] = TRUE

\* the columns that more than one of the tables in scope hold
Shared(c, tables) ==
    {col \in Columns :
        Cardinality({k \in DOMAIN tables : col \in ColumnsKnown(c, tables[k][2])}) > 1}

\* C23: for a column request with drop_unique, get_completions offers the
\* columns (that the word typed matches) held by more than one of the tables
\* in scope, each once, and nothing else: never "*", never a column of one
\* table only
C23_UsingOffersSharedColumns ==
    UsingCall =>
        LET word == lower(asked.args[1])
            shared == Shared(index.completer, asked.args[2])
        IN /\ SeqToSet(asked.returned) =
                  {Text(col) : col \in {x \in shared : IsSubsequence(word, Text(x))}}
           /\ \A j, k \in DOMAIN asked.returned :
                  asked.returned[j] = asked.returned[k] => j = k

\* two tables in scope share the column a and one of them has x as well:
\* only a is offered
C23_Witness ==
    /\ UsingCall
    /\ asked.args[1] = <<>>
    /\ asked.args[2] = << <<None, "t", None>>, <<None, "u", None>> >>
    /\ ColumnsKnown(index.completer, "t") = {"a", "x"}
    /\ ColumnsKnown(index.completer, "u") = {"a"}
    /\ asked.returned = << <<"a">> >>

\* the line is in the try statement of one_iteration (lines 510-575)
Attempting(l) == l.pc \in {"run", "refresh"}

\* the step appended the record q to the history
Appended(q) == loop'.history = Append(loop.history, q)

\* C24: the query history only grows, and in input order: a step leaves it
\* as it is or appends one record, for the line being attempted; the
\* iteration of a line that reached the try statement returns with exactly
\* one record appended; and the record says successful only when nothing
\* was raised while the line was executed.
C24_HistoryAppendOnly ==
    [][/\ \/ loop'.history = loop.history
          \/ /\ Attempting(loop)
             /\ \E successful, mutating \in BOOLEAN :
                    Appended(Query(loop.text, successful, mutating))
       /\ (Attempting(loop) /\ loop'.pc = "prompt") =>
              Len(loop'.history) = Len(loop.history) + 1
       /\ \A mutating \in BOOLEAN :
              Appended(Query(loop.text, TRUE, mutating)) => loop'.message = None]_vars

\* the step passed nothing to the executor, refreshed nothing and recorded
\* nothing
NothingDone ==
    /\ loop'.executed = loop.executed
    /\ loop'.refreshes = loop.refreshes
    /\ loop'.history = loop.history

FileDeclined(l) == l.message = "Wise choice. Command execution stopped."

\* C30: a line whose confirmation was answered False goes back to the
\* prompt, and from that answer until the next confirmation nothing is
\* passed to the executor, refreshed or recorded; and when the confirmation
\* of the content of a file is answered False, the .read line is all that the
\* executor was given.
C30_DeclinedNeverRuns ==
    [][/\ (loop.pc = "confirm" /\ loop'.destroy = "False") => loop'.pc = "prompt"
       /\ (loop.destroy = "False" \/ loop'.destroy = "False") => NothingDone
       /\ (loop.pc = "run" /\ FileDeclined(loop')) =>
              /\ loop'.executed = Append(loop.executed, "read")
              /\ loop'.refreshes = loop.refreshes
       /\ (loop.pc = "refresh" /\ FileDeclined(loop)) =>
              loop'.executed = loop.executed /\ loop'.refreshes = loop.refreshes]_vars

\* a line was declined, and the content of a file was
C30_Witness ==
    /\ loop.pc = "prompt"
    /\ loop.destroy = "False"
    /\ loop.message = "Wise choice!"
    /\ loop.executed = <<"read">>
    /\ Len(loop.history) = 1

\* a text without its blanks
RECURSIVE Unspaced(_)
Unspaced(text) ==
    IF text = <<>> THEN <<>>
    ELSE (IF Head(text) \in Whitespace THEN <<>> ELSE <<Head(text)>>) \o Unspaced(Tail(text))

RECURSIVE Concat(_)
Concat(texts) == IF texts = <<>> THEN <<>> ELSE Head(texts) \o Concat(Tail(texts))

SavesFavorite(statement) == StartsWith(statement, <<"\\", "f", "s">>)

\* the components are the statements of the text: together they are the
\* text, and a semicolon is only ever the end of one
StatementsOf(components, statement) ==
    /\ Unspaced(Concat(components)) = Unspaced(statement)
    /\ \A k \in DOMAIN components :
           /\ components[k] # <<>>
           /\ \A j \in 1..(Len(components[k]) - 1) : components[k][j] # ";"

\* C25: run() handles the sub-statements of its text in their order, one at
\* a time, each result yielded before the next is started; a sub-statement
\* is tried as a special command first and is run as SQL only after
\* CommandNotFound; when one raises, those before it were handled and
\* yielded and none after it is started; and a text that starts with \fs is
\* one sub-statement, whatever semicolons it holds.
C25_RunInOrder ==
    sqlrun.pc \in {"running", "raised"} =>
        LET statement == strip(sqlrun.statement, Whitespace)
            components == sqlrun.components
            trace == sqlrun.trace
        IN /\ IF SavesFavorite(statement) THEN components = <<statement>>
              ELSE StatementsOf(components, statement)
           /\ Len(trace) = sqlrun.k - 1 /\ Len(trace) <= Len(components)
           /\ \A k \in DOMAIN trace :
                  /\ trace[k].sql = strip_statement(components[k])
                  /\ "sql" \in SeqToSet(trace[k].ran) =>
                         execute(COMMANDS, "cur", trace[k].sql).raised = CommandNotFound
                  /\ execute(COMMANDS, "cur", trace[k].sql).raised # CommandNotFound =>
                         \/ trace[k].ran = <<execute(COMMANDS, "cur", trace[k].sql).calls[1].handler>>
                         \/ trace[k].raised = NotConnected
                  /\ trace[k].raised # None => k = Len(trace) /\ sqlrun.pc = "raised"
                  /\ k < Len(trace) => trace[k].raised = None
           /\ sqlrun.pc = "raised" => trace # <<>> /\ trace[Len(trace)].raised # None

\* a favorite query of two statements was saved as one sub-statement; or
\* the second of two sub-statements raised after the first yielded
C25_Witness ==
    \/ /\ sqlrun.statement \in FavoriteSaves
       /\ Len(sqlrun.trace) = 1
       /\ sqlrun.trace[1].ran = <<"save_favorite_query">>
    \/ /\ sqlrun.pc = "raised"
       /\ Len(sqlrun.components) = 2
       /\ Len(sqlrun.trace) = 2
       /\ sqlrun.trace[1].yielded # <<>>

\* the statement handled last changed the database
ChangedDb == fg.statement \in {".open", "use"}

\* the statement is handled and every _bg_refresh invocation has returned
RefreshWorkFinished ==
    /\ fg.pc = "idle" /\ fg.todo = <<>>
    /\ \A r \in DOMAIN runs : runs[r].pc = "done"

\* C26: once a statement that changes the database is handled and all
\* refresh work has finished, the live completer holds the metadata of the
\* database the session is connected to: not that of the previous one, not
\* the empty reset state.
C26_NewDatabaseCompletions ==
    (ChangedDb /\ RefreshWorkFinished) => completer.dbname = sqlexecute_dbname

\* the thread that holds the lock is inside get_completions or inside the
\* swap of _on_completions_refreshed (the reset takes and gives the lock
\* back within one step)
InGetCompletions == completer_lock = MainThread /\ fg.pc = "get_completions"

InSwap ==
    \E r \in DOMAIN runs :
        /\ runs[r].pc = "swap" /\ runs[r].thread = completer_lock
        /\ runs[r].thread = MainThread => fg.pc = "sync"

InPromptSession == completer_lock = MainThread /\ fg.pc = "prompt_session"

\* a thread is about to take the lock
Requests(thread) ==
    \/ /\ thread = MainThread
       /\ fg.pc = "idle"
       /\ \/ fg.todo = <<>>
          \/ fg.todo # <<>> /\ (Head(fg.todo).reset \/ Head(fg.todo).op = "prompt_session")
    \/ \E r \in DOMAIN runs :
          /\ runs[r].thread = thread /\ runs[r].pc = "callback"
          /\ callbacks_list(runs[r].callbacks)[runs[r].i] = on_completions_refreshed

\* C28 as stated: the lock is held only for the reset, the swap and a
\* get_completions call.
C28_HeldOnlyForResetSwapGet ==
    completer_lock # None => (InGetCompletions \/ InSwap)

\* C28: the lock is never requested by the thread that holds it; it is held
\* only for the reset, the swap, a get_completions call and the making of
\* the prompt session; and a lock that is held is given back.
C28_NoLockDeadlock ==
    /\ [](completer_lock # None => ~Requests(completer_lock))
    /\ [](completer_lock # None => (InGetCompletions \/ InSwap \/ InPromptSession))
    /\ (completer_lock # None) ~> (completer_lock = None)

\* 'use :memory:': the live completer was reset, the refresh runs on the
\* foreground thread and its callback holds the lock for the swap
C28_Witness ==
    /\ fg.statement = "use" /\ fg.pc = "sync"
    /\ completer_lock = MainThread
    /\ completer = reset_completions(completer)
    /\ completer.id > 1
    /\ \E r \in DOMAIN runs : runs[r].thread = MainThread /\ runs[r].pc = "swap"

\* ---- C27
\* the components of an input line that ran: all of them up to the first that raised
Ran(text) ==
    LET raising == {k \in 1..Len(text) : text[k].text = OnceText(Denied)}
    IN IF raising = {} THEN Len(text) ELSE CHOOSE k \in raising : \A j \in raising : k <= j

\* the non-empty output lines of the components from..to of an input line
RECURSIVE Outputs(_, _, _)
Outputs(text, from, to) ==
    IF from > to THEN <<>>
    ELSE SelectSeq(text[from].output, LAMBDA o : o # "") \o Outputs(text, from + 1, to)

\* the output lines in the file that input line n put there
RECURSIVE OutputOfRecords(_)
OutputOfRecords(records) ==
    IF records = <<>> THEN <<>> ELSE <<Head(records).output>> \o OutputOfRecords(Tail(records))

WrittenBy(n) == OutputOfRecords(SelectSeq(special.once_written, LAMBDA r : r.line = n))

\* <<line, component>> of every .once that armed a file
Armings ==
    {p \in (1..Len(special.lines)) \X (1..2) :
        /\ p[2] <= Ran(special.lines[p[1]])
        /\ special.lines[p[1]][p[2]].text = OnceText(<<"f">>)}

LastArming(p) ==
    /\ p \in Armings
    /\ \A q \in Armings : q = p \/ q[1] < p[1] \/ (q[1] = p[1] /\ q[2] < p[2])

\* the input lines after line a that produced output
ProducedAfter(a) ==
    {n \in (a + 1)..Len(special.lines) :
        Outputs(special.lines[n], 1, Ran(special.lines[n])) # <<>>}

First(S) == CHOOSE n \in S : \A m \in S : n <= m

\* input line n put all of its output in the file and no later line put any
OnlyLine(n) ==
    /\ WrittenBy(n) = Outputs(special.lines[n], 1, Ran(special.lines[n]))
    /\ \A m \in (n + 1)..Len(special.lines) : WrittenBy(m) = <<>>
    /\ special.once_file # None <=> n = Len(special.lines)

\* C27 as stated: after the last .once, the output of the next input line that
\* produces output is in the file and the output of no later input line is
C27_NextLineWritten ==
    \A p \in Armings :
        (LastArming(p) /\ ProducedAfter(p[1]) # {}) => OnlyLine(First(ProducedAfter(p[1])))

\* C27: only non-empty lines are written, and only while a file is armed; the
\* output that follows the last .once in its own input line, or else that of
\* the next input line that produces output, is in the file, no later input
\* line's output is, and the file stays armed until an input line begins
\* after the first write
C27_OnceOneShot ==
    /\ special.written_to_once_file => special.once_file # None
    /\ \A k \in 1..Len(special.once_written) : special.once_written[k].output # ""
    /\ Armings = {} => (special.once_written = <<>> /\ special.once_file = None)
    /\ \A p \in Armings :
        LastArming(p) =>
            LET a == p[1]
                same == Outputs(special.lines[a], p[2] + 1, Ran(special.lines[a]))
            IN IF same # <<>>
               THEN /\ EndsWith(WrittenBy(a), same)
                    /\ \A m \in (a + 1)..Len(special.lines) : WrittenBy(m) = <<>>
                    /\ special.once_file # None <=> a = Len(special.lines)
               ELSE IF ProducedAfter(a) # {}
               THEN OnlyLine(First(ProducedAfter(a)))
               ELSE special.once_file # None /\ ~special.written_to_once_file

C27_Witness ==
    /\ Len(special.lines) = 3
    /\ Armings = {<<1, 1>>}
    /\ special.lines[2] = <<Component(<<"q">>, <<>>)>>
    /\ special.lines[3] = <<Component(<<"q">>, <<"", "r">>), Component(<<"q">>, <<"r">>)>>
    /\ WrittenBy(3) = <<"r", "r">>
    /\ special.once_file # None

\* ---- C29
\* the file a connect argument names, whether it can be opened or not
NamedFile(s, database) ==
    LET db == IF database \in {None, ""} THEN s.dbname ELSE database
    IN CASE db = "file:a.db" -> "a.db"
         [] db = "file:gone/c.db" -> "gone/c.db"
         [] db = "~/b.db" -> "/home/b.db"
         [] OTHER -> db

\* the executor holds one open connection at most, its own
OneConnection(s) ==
    /\ Cardinality(s.open) <= 1
    /\ \A c \in s.open : c.id = s.conn /\ c.file = s.dbname
    /\ s.open = {} <=> s.conn = NoConnection

\* one call of connect took the executor from s to t
ConnectStep(s, t) ==
    /\ OneConnection(t)
    /\ t.raised # None =>
          (t.conn = s.conn /\ t.dbname = s.dbname /\ t.open = s.open)
    /\ (t.raised = None /\ NamedFile(s, t.database) = None) =>
          (t.conn = s.conn /\ t.dbname = s.dbname /\ t.open = s.open)
    /\ (t.raised = None /\ NamedFile(s, t.database) # None) =>
          /\ t.conn \notin {NoConnection, s.conn}
          /\ t.open = {[id |-> t.conn, file |-> NamedFile(s, t.database)]}
          /\ t.dbname = NamedFile(s, t.database)

\* C29: a connect that raises leaves conn, dbname and the open connection as
\* they were; a connect that opens a database closes the previous connection
\* and makes conn and dbname name the new one; at most one connection is open
C29_ConnectAllOrNothing == [][ConnectStep(sqlrun, sqlrun')]_vars

C29_Witness ==
    /\ sqlrun.made = 2
    /\ sqlrun.raised # None
    /\ sqlrun.database = "file:gone/c.db"
    /\ sqlrun.open = {[id |-> 2, file |-> "/home/b.db"]}

====
